---- MODULE Spec2Model ----
(***************************************************************************)
(* A state-machine model of the InboxContext backend: the hybrid retriever *)
(* (retriever.py, reranker.py), the agent's three-tier decision engine     *)
(* (agent.py, llm.py) and the decision store with its graph projection     *)
(* (main.py, models.py).                                                    *)
(*                                                                         *)
(* Conventions.  A uuid is a record [k, p, n]: p stands for its first 8    *)
(* characters, n makes it unique.  Scores are integers in hundredths       *)
(* (0.8 is 80).  A text is a sequence of lines and a line a sequence of    *)
(* tokens, the colon and the blank being tokens of their own.              *)
(***************************************************************************)
EXTENDS Integers, Sequences, FiniteSets, TLC

VARIABLES
    decisions,  \* the decisions table, in insertion order
    links,      \* the decision_precedents table
    nodes,      \* the graph_nodes table
    edges,      \* the graph_edges table
    vstore,     \* the decision entries of the vector store
    clock,      \* source of fresh uuids and timestamps
    out         \* the last operation with its arguments and its result

vars == <<decisions, links, nodes, edges, vstore, clock, out>>

(***************************************************************************)
(* Bounds of the model.                                                    *)
(***************************************************************************)
MaxDecisions == 2
MaxSrcLen == 2
MaxTopK == 2
MaxLines == 2
MaxPrecedents == 3
MaxStored == 6
MaxRankLen == 3
MaxCopies == 3

(***************************************************************************)
(* Program constants.                                                      *)
(***************************************************************************)
GraphScore == 80
AgentTopK == 10
PrecedentLimit == 5
DefaultK == 60

ValidActions == {"reply_now", "reply_later", "ignore"}
ValidTones == {"warm", "neutral", "formal"}

NoDecisionId == [k |-> "none", p |-> "", n |-> 0]

(***************************************************************************)
(* Python list helpers.                                                    *)
(***************************************************************************)
Min(a, b) == IF a <= b THEN a ELSE b
Max(a, b) == IF a >= b THEN a ELSE b

\* s[:k], for a k of either sign
Slice(s, k) ==
    IF k >= 0 THEN SubSeq(s, 1, Min(k, Len(s)))
    ELSE SubSeq(s, 1, Max(0, Len(s) + k))

\* one step of a stable descending sort: x goes behind every element whose
\* key is not smaller
RECURSIVE InsertDesc(_, _, _)
InsertDesc(x, s, f) ==
    IF s = <<>> THEN <<x>>
    ELSE IF Head(s)[f] >= x[f] THEN <<Head(s)>> \o InsertDesc(x, Tail(s), f)
    ELSE <<x>> \o s

\* sorted(s, key=lambda x: x[f], reverse=True): stable, descending
RECURSIVE SortDesc(_, _)
SortDesc(s, f) ==
    IF s = <<>> THEN <<>>
    ELSE InsertDesc(s[Len(s)], SortDesc(SubSeq(s, 1, Len(s) - 1), f), f)

SeqToSet(s) == {s[i] : i \in 1..Len(s)}

\* the sequences over S of length at most n
SeqsUpTo(S, n) == UNION {[1..k -> S] : k \in 0..n}

(***************************************************************************)
(* The messages table (init_db.py loads it once; nothing changes it).      *)
(***************************************************************************)
MsgId(i) == [k |-> "uuid", p |-> <<"0a11ce01", "0b0b0002", "0ca70003">>[i], n |-> i]

Messages ==
    { [id |-> MsgId(1), sender_name |-> "Sarah", sender_type |-> "investor",
       content |-> <<"Quick", " ", "check-in">>],
      [id |-> MsgId(2), sender_name |-> "newsletter", sender_type |-> "sales",
       content |-> <<"Join", " ", "Webinar", " ", "Register now">>],
      [id |-> MsgId(3), sender_name |-> "Alex", sender_type |-> "support",
       content |-> <<"export", " ", "error">>] }

MessageIds == {m.id : m \in Messages}
MessageById(id) == CHOOSE m \in Messages : m.id = id

(***************************************************************************)
(* retriever.py: the candidate sources.  A source call either raises or    *)
(* returns a list; its outcome is a record [err, items].                   *)
(***************************************************************************)
Raised == [err |-> TRUE, items |-> <<>>]
Returned(items) == [err |-> FALSE, items |-> items]
NotCalled == Returned(<<>>)
RerankerRaised == [err |-> TRUE, scores |-> <<>>]
RerankerNotCalled == [err |-> FALSE, scores |-> <<>>]

\* _vector_search: one candidate per row of the vector store's answer,
\* score = 1.0 - distance.  raw is what the collection holds for the query,
\* nearest first: the query returns its first n rows, and rejects n <= 0.
_vector_search(raw, n) ==
    IF raw.err \/ n <= 0 THEN Raised
    ELSE LET rows == Slice(raw.items, n)
         IN Returned([i \in 1..Len(rows) |->
                [id |-> rows[i].id,
                 score |-> 100 - rows[i].dist,
                 did |-> rows[i].did,
                 source |-> "vector"]])

\* the rows of a keyword answer whose message is in the messages table
RECURSIVE KeywordRows(_)
KeywordRows(rows) ==
    IF rows = <<>> THEN <<>>
    ELSE IF Head(rows).id \in MessageIds
         THEN <<[id |-> Head(rows).id,
                 score |-> Head(rows).bm25 \div 100,
                 did |-> NoDecisionId,
                 source |-> "keyword"]>> \o KeywordRows(Tail(rows))
         ELSE KeywordRows(Tail(rows))

\* _keyword_search: raw holds the index's matches, which
\* KeywordSearcher.search sorts by score and cuts with [:n]; the bm25 scores
\* are in ten-thousandths, so that score / 100.0 is in hundredths
_keyword_search(raw, n) ==
    IF raw.err THEN Raised
    ELSE Returned(KeywordRows(Slice(SortDesc(raw.items, "bm25"), n)))

\* the decisions on messages of one sender type, newest first
RECURSIVE DecisionsOfType(_, _)
DecisionsOfType(decs, sender_type) ==
    IF decs = <<>> THEN <<>>
    ELSE LET d == decs[Len(decs)]
             rest == DecisionsOfType(SubSeq(decs, 1, Len(decs) - 1), sender_type)
         IN IF MessageById(d.message_id).sender_type = sender_type
            THEN <<d>> \o rest ELSE rest

\* _graph_search: the newest n decisions of the sender type, each a
\* candidate of fixed score 0.8 carrying its decision id as metadata; the
\* database rejects a negative LIMIT
_graph_search(decs, sender_type, n, dbFails) ==
    IF dbFails \/ n < 0 THEN Raised
    ELSE LET found == Slice(DecisionsOfType(decs, sender_type), n)
         IN Returned([i \in 1..Len(found) |->
                [id |-> found[i].id,
                 score |-> GraphScore,
                 did |-> found[i].id,
                 source |-> "graph"]])

(***************************************************************************)
(* reranker.py                                                             *)
(***************************************************************************)
\* a rerank that sorts and never cuts
RerankUncut(scores, n, top_k) ==
    SortDesc([i \in 1..n |-> [idx |-> i, score |-> scores[i]]], "score")

\* Reranker.rerank: (index, score) pairs sorted by score, cut to top_k when
\* top_k is truthy.  scores is the cross-encoder's answer, one per document.
rerank(scores, n, top_k) ==
    LET pairs == [i \in 1..n |-> [idx |-> i, score |-> scores[i]]]
        sorted == SortDesc(pairs, "score")
    IN IF n = 0 THEN <<>>
       ELSE IF top_k # 0 THEN Slice(sorted, top_k) ELSE sorted

\* Reranker.rerank_with_metadata: copies of the results in reranked order,
\* each with its rerank_score
rerank_with_metadata(results, scores, top_k) ==
    IF results = <<>> THEN <<>>
    ELSE LET reranked == rerank(scores, Len(results), top_k)
         IN [j \in 1..Len(reranked) |->
                [id |-> results[reranked[j].idx].id,
                 score |-> results[reranked[j].idx].score,
                 did |-> results[reranked[j].idx].did,
                 source |-> results[reranked[j].idx].source,
                 rerank_score |-> reranked[j].score]]

(***************************************************************************)
(* retriever.py: HybridRetriever.retrieve                                  *)
(***************************************************************************)
\* a merge that forgets the seen_ids test
DeduplicateKeepsAll(all_results, seen_ids) == all_results

\* the loop over all_results: the first occurrence of an id is kept
RECURSIVE Deduplicate(_, _)
Deduplicate(all_results, seen_ids) ==
    IF all_results = <<>> THEN <<>>
    ELSE IF Head(all_results).id \in seen_ids
         THEN Deduplicate(Tail(all_results), seen_ids)
         ELSE <<Head(all_results)>>
              \o Deduplicate(Tail(all_results), seen_ids \cup {Head(all_results).id})

\* which of the three sources retrieve queries
SourceEnabled(req) ==
    [vector |-> req.use_vector, keyword |-> req.use_keyword,
     graph |-> req.use_graph /\ req.sender_type # ""]

\* the outcomes of the source calls retrieve makes: vector and keyword are
\* asked for 2 * top_k rows, the graph for top_k.  env holds what the
\* outside world answers: vraw and kraw, the outcomes of VectorStore.search
\* and KeywordSearcher.search; dbFails, whether the decisions query raises.
SourceOutcomes(req, env, decs) ==
    [vector |-> _vector_search(env.vraw, req.top_k * 2),
     keyword |-> _keyword_search(env.kraw, req.top_k * 2),
     graph |-> _graph_search(decs, req.sender_type, req.top_k, env.dbFails)]

\* all_results after the three extend calls
AllResults(on, src) ==
    (IF on.vector THEN src.vector.items ELSE <<>>)
    \o (IF on.keyword THEN src.keyword.items ELSE <<>>)
    \o (IF on.graph THEN src.graph.items ELSE <<>>)

\* unique_results before ranking
UniqueResults(req, env, decs) ==
    Deduplicate(AllResults(SourceEnabled(req), SourceOutcomes(req, env, decs)), {})

\* retrieve: env.rr is the outcome of the cross-encoder, [err, scores].  An
\* exception of a call that is made leaves retrieve: nothing in it catches.
retrieve(req, env, decs) ==
    LET on == SourceEnabled(req)
        src == SourceOutcomes(req, env, decs)
        unique_results == UniqueResults(req, env, decs)
    IN IF \/ on.vector /\ src.vector.err
          \/ on.keyword /\ src.keyword.err
          \/ on.graph /\ src.graph.err
       THEN [status |-> "raised", items |-> <<>>]
       ELSE IF req.rerank /\ unique_results # <<>>
       THEN IF env.rr.err THEN [status |-> "raised", items |-> <<>>]
            ELSE [status |-> "ok",
                  items |-> rerank_with_metadata(unique_results, env.rr.scores,
                                                 req.top_k)]
       ELSE [status |-> "ok",
             items |-> Slice(SortDesc(unique_results, "score"), req.top_k)]

(***************************************************************************)
(* Texts.  str.lower as a table over the tokens that carry capitals.       *)
(***************************************************************************)
Capitals ==
    [Action |-> "action", Tone |-> "tone", Reasoning |-> "reasoning",
     Intent |-> "intent", Urgency |-> "urgency", Topics |-> "topics",
     IGNORE |-> "ignore", REPLY_NOW |-> "reply_now", Ignore |-> "ignore",
     Warm |-> "warm", FORMAL |-> "formal", High |-> "high",
     Webinar |-> "webinar", Newsletter |-> "newsletter", Yes |-> "yes"]

LowerToken(t) ==
    IF t \in DOMAIN Capitals THEN Capitals[t]
    ELSE IF t = "Register now" THEN "register now"
    ELSE t

\* str.lower
Lower(toks) == [i \in 1..Len(toks) |-> LowerToken(toks[i])]

\* str.strip: the blanks at both ends go
RECURSIVE LStrip(_)
LStrip(toks) ==
    IF toks # <<>> /\ Head(toks) = " " THEN LStrip(Tail(toks)) ELSE toks

RECURSIVE RStrip(_)
RStrip(toks) ==
    IF toks # <<>> /\ toks[Len(toks)] = " "
    THEN RStrip(SubSeq(toks, 1, Len(toks) - 1)) ELSE toks

Strip(toks) == LStrip(RStrip(toks))

HasColon(line) == \E i \in 1..Len(line) : line[i] = ":"

FirstColon(line) ==
    CHOOSE i \in 1..Len(line) : line[i] = ":" /\ \A j \in 1..(i - 1) : line[j] # ":"

\* line.split(':', 1)[0] and [1], for a line that holds a colon
BeforeColon(line) == SubSeq(line, 1, FirstColon(line) - 1)
AfterColon(line) == SubSeq(line, FirstColon(line) + 1, Len(line))

\* line.startswith(word + ":")
StartsWith(line, word) == Len(line) >= 2 /\ line[1] = word /\ line[2] = ":"

(***************************************************************************)
(* llm.py: LLMClient.generate.  chat is the outcome of the Ollama call:    *)
(* [err, text].  Every exception of the call is caught in generate, which  *)
(* then returns the canned reply; generate itself never raises.            *)
(***************************************************************************)
_fallback_response ==
    << <<"Thank", " ", "you", " ", "for", " ", "your", " ", "message.">> >>

\* whether generate lets an exception of the call through: its except clause
\* catches Exception, so never
generate_raises(chat) == FALSE

generate(chat) == IF chat.err THEN _fallback_response ELSE chat.text

ChatFailed == [err |-> TRUE, text |-> <<>>]
ChatNotCalled == [err |-> FALSE, text |-> <<>>]
ChatSaid(text) == [err |-> FALSE, text |-> text]

(***************************************************************************)
(* agent.py                                                                *)
(***************************************************************************)
\* dict.get(key, default) on an analysis, a record that may lack fields
Get(analysis, key, default) ==
    IF key \in DOMAIN analysis THEN analysis[key] ELSE default

\* the assignments one line of the analysis response makes
AnalysisLine(analysis, line) ==
    IF ~HasColon(line) THEN analysis
    ELSE LET key == Lower(Strip(BeforeColon(line)))
             value == Strip(AfterColon(line))
             put(k, v) == [f \in DOMAIN analysis \cup {k} |->
                             IF f = k THEN v ELSE analysis[f]]
         IN IF key = <<"intent">> THEN put("intent", value)
            ELSE IF key = <<"topics">> THEN put("topics", value)
            ELSE IF key = <<"urgency">> THEN put("urgency", value)
            ELSE IF key = <<"action">>
                 THEN [f \in DOMAIN analysis \cup {"requires_action", "action_description"} |->
                         IF f = "requires_action"
                         THEN \E i \in 1..Len(value) : LowerToken(value[i]) = "yes"
                         ELSE IF f = "action_description" THEN value
                         ELSE analysis[f]]
            ELSE analysis

RECURSIVE ParseAnalysis(_, _)
ParseAnalysis(analysis, lines) ==
    IF lines = <<>> THEN analysis
    ELSE ParseAnalysis(AnalysisLine(analysis, Head(lines)), Tail(lines))

EmptyAnalysis == [f \in {} |-> <<>>]

\* _analyze_message: a fixed analysis without the LLM, else whatever the
\* response's "key: value" lines give; generate never raises, and neither
\* does the parsing of a text
_analyze_message(use_llm, chat) ==
    IF ~use_llm
    THEN [intent |-> <<"unknown">>, topics |-> <<"general">>,
          urgency |-> <<"medium">>, requires_action |-> FALSE]
    ELSE ParseAnalysis(EmptyAnalysis, generate(chat))

\* _retrieve_context: retrieve with every source and the reranker on,
\* top_k = 10; an exception of retrieve gives the empty context
_retrieve_context(message, env, decs) ==
    LET req == [sender_type |-> message.sender_type, top_k |-> AgentTopK,
                use_vector |-> TRUE, use_keyword |-> TRUE, use_graph |-> TRUE,
                rerank |-> TRUE]
        got == retrieve(req, env, decs)
    IN IF got.status = "raised" THEN <<>> ELSE got.items

\* an id loop that takes the decision id of every candidate, whatever its source
AnySourceIds(retrieved_context) ==
    {retrieved_context[i].did : i \in
        {j \in 1..Len(retrieved_context) : retrieved_context[j].did # NoDecisionId}}

\* an id loop that takes the candidates tagged precedent only
PrecedentTaggedIds(retrieved_context) ==
    {retrieved_context[i].did : i \in
        {j \in 1..Len(retrieved_context) :
            /\ retrieved_context[j].source = "precedent"
            /\ retrieved_context[j].did # NoDecisionId}}

\* the decision ids _get_similar_decisions collects from the context
ContextDecisionIds(retrieved_context) ==
    {retrieved_context[i].did : i \in
        {j \in 1..Len(retrieved_context) :
            /\ retrieved_context[j].source \in {"graph", "precedent"}
            /\ retrieved_context[j].did # NoDecisionId}}

\* the duplicate-free sequences of exactly n elements of S
Arrangements(S, n) ==
    {q \in [1..n -> S] : \A i, j \in 1..n : i # j => q[i] # q[j]}

\* _get_similar_decisions: the query "id IN (...) LIMIT 5" has no ORDER BY,
\* so the database may answer with any 5 of the matching rows in any order
_get_similar_decisions(retrieved_context, decs) ==
    LET wanted == ContextDecisionIds(retrieved_context)
        rows == {d \in SeqToSet(decs) : d.id \in wanted}
    IN IF wanted = {} THEN {<<>>}
       ELSE Arrangements(rows, Min(PrecedentLimit, Cardinality(rows)))

\* the keys of action_counts / tone_counts in insertion order
RECURSIVE KeysInOrder(_, _)
KeysInOrder(vals, seen) ==
    IF vals = <<>> THEN <<>>
    ELSE IF Head(vals) \in seen THEN KeysInOrder(Tail(vals), seen)
    ELSE <<Head(vals)>> \o KeysInOrder(Tail(vals), seen \cup {Head(vals)})

CountOf(vals, v) == Cardinality({i \in 1..Len(vals) : vals[i] = v})

\* a scan that lets a later key of equal count replace the best so far
RECURSIVE LastSeenMax(_, _, _)
LastSeenMax(keys, vals, best) ==
    IF keys = <<>> THEN best
    ELSE IF CountOf(vals, Head(keys)) >= CountOf(vals, best)
         THEN LastSeenMax(Tail(keys), vals, Head(keys))
         ELSE LastSeenMax(Tail(keys), vals, best)

\* max(counts, key=counts.get): the scan keeps the first key of the largest
\* count
RECURSIVE MaxByCount(_, _, _)
MaxByCount(keys, vals, best) ==
    IF keys = <<>> THEN best
    ELSE IF CountOf(vals, Head(keys)) > CountOf(vals, best)
         THEN MaxByCount(Tail(keys), vals, Head(keys))
         ELSE MaxByCount(Tail(keys), vals, best)

\* a vote that returns the first precedent's value
FirstValue(vals) == vals[1]

MostCommon(vals) ==
    LET keys == KeysInOrder(vals, {}) IN MaxByCount(Tail(keys), vals, Head(keys))

\* _precedent_voting, for a non-empty list
_precedent_voting(similar_decisions, sender_type) ==
    LET acts == [i \in 1..Len(similar_decisions) |->
                    similar_decisions[i].human_action.action]
        tones == [i \in 1..Len(similar_decisions) |->
                    similar_decisions[i].human_action.tone]
        a == MostCommon(acts)
        t == MostCommon(tones)
    IN [action |-> a, tone |-> t,
        reasoning |-> <<"Based on ", ToString(Len(similar_decisions)),
                        " similar ", sender_type,
                        " message(s), you typically chose '", a,
                        "' with '", t, "' tone.">>]

\* a parser that takes the Action and Tone values as they come
TrustingLine(sofar, line) ==
    IF StartsWith(line, "Action") /\ Len(Strip(AfterColon(line))) = 1
    THEN [sofar EXCEPT !.action = Lower(Strip(AfterColon(line)))[1]]
    ELSE IF StartsWith(line, "Tone") /\ Len(Strip(AfterColon(line))) = 1
    THEN [sofar EXCEPT !.tone = Lower(Strip(AfterColon(line)))[1]]
    ELSE sofar

\* the assignments one line of the suggestion response makes
SuggestionLine(sofar, line) ==
    IF StartsWith(line, "Action")
    THEN LET suggested_action == Lower(Strip(AfterColon(line)))
         IN IF Len(suggested_action) = 1 /\ suggested_action[1] \in ValidActions
            THEN [sofar EXCEPT !.action = suggested_action[1]] ELSE sofar
    ELSE IF StartsWith(line, "Tone")
    THEN LET suggested_tone == Lower(Strip(AfterColon(line)))
         IN IF Len(suggested_tone) = 1 /\ suggested_tone[1] \in ValidTones
            THEN [sofar EXCEPT !.tone = suggested_tone[1]] ELSE sofar
    ELSE IF StartsWith(line, "Reasoning")
    THEN [sofar EXCEPT !.reasoning = Strip(AfterColon(line))]
    ELSE sofar

RECURSIVE ParseSuggestion(_, _)
ParseSuggestion(sofar, lines) ==
    IF lines = <<>> THEN sofar
    ELSE ParseSuggestion(SuggestionLine(sofar, Head(lines)), Tail(lines))

\* _llm_based_suggestion: the response is scanned line by line from the
\* defaults; the except branch answers with the vote when generate raises
\* (the scan of a text cannot)
_llm_based_suggestion(chat, similar_decisions, sender_type) ==
    IF generate_raises(chat)
    THEN _precedent_voting(similar_decisions, sender_type)
    ELSE ParseSuggestion([action |-> "reply_later", tone |-> "neutral",
                          reasoning |-> <<"Analysis pending">>],
                         generate(chat))

\* a table without its last row: nothing is answered for the other senders
NoDefaultRow(message, analysis) ==
    IF message.sender_type \in {"investor", "support"}
    THEN [action |-> "reply_now", tone |-> "neutral", reasoning |-> <<"Priority">>]
    ELSE [action |-> "", tone |-> "", reasoning |-> <<>>]

\* a table that answers reply_later for everything
AlwaysLater(message, analysis) ==
    [action |-> "reply_later", tone |-> "neutral", reasoning |-> <<"Standard">>]

\* heuristics that look at the intent before the urgency
IntentBeforeUrgency(message, analysis) ==
    LET urgency == Get(analysis, "urgency", <<"medium">>)
        intent == Get(analysis, "intent", <<"unknown">>)
    IN IF intent \in {<<"urgent_request">>, <<"question">>}
       THEN [action |-> "reply_now", tone |-> "warm", reasoning |-> <<"Direct">>]
       ELSE IF intent \in {<<"sales_pitch">>, <<"newsletter">>}
       THEN [action |-> "ignore", tone |-> "neutral", reasoning |-> <<"Promotional">>]
       ELSE IF urgency \in {<<"high">>, <<"critical">>}
       THEN [action |-> "reply_now", tone |-> "neutral", reasoning |-> <<"High urgency">>]
       ELSE IF message.sender_type = "investor"
       THEN [action |-> "reply_now", tone |-> "neutral", reasoning |-> <<"Investor">>]
       ELSE IF message.sender_type = "support"
       THEN [action |-> "reply_now", tone |-> "warm", reasoning |-> <<"Support">>]
       ELSE [action |-> "reply_later", tone |-> "neutral", reasoning |-> <<"Standard">>]

\* _fallback_heuristics
_fallback_heuristics(message, analysis) ==
    LET urgency == Get(analysis, "urgency", <<"medium">>)
        intent == Get(analysis, "intent", <<"unknown">>)
        sender_type == message.sender_type
    IN IF urgency \in {<<"high">>, <<"critical">>}
       THEN [action |-> "reply_now", tone |-> "neutral",
             reasoning |-> <<"High urgency ">> \o intent \o <<" from ", sender_type,
                             " requires immediate attention.">>]
       ELSE IF intent \in {<<"urgent_request">>, <<"question">>}
       THEN [action |-> "reply_now", tone |-> "warm",
             reasoning |-> <<"Direct question or request from ", sender_type,
                             " needs prompt response.">>]
       ELSE IF intent \in {<<"sales_pitch">>, <<"newsletter">>}
       THEN [action |-> "ignore", tone |-> "neutral",
             reasoning |-> <<"Promotional content - no response needed.">>]
       ELSE IF sender_type = "investor"
       THEN [action |-> "reply_now", tone |-> "neutral",
             reasoning |-> <<"Investor communications are high priority and require timely response.">>]
       ELSE IF sender_type = "support"
       THEN [action |-> "reply_now", tone |-> "warm",
             reasoning |-> <<"Customer support requests should be handled warmly and promptly.">>]
       ELSE [action |-> "reply_later", tone |-> "neutral",
             reasoning |-> <<"Standard ", sender_type,
                             " communication can be addressed when convenient.">>]

\* str.strip on a whole text: nothing is left of a text of blanks
StripText(text) ==
    IF \E i \in 1..Len(text) : Strip(text[i]) # <<>> THEN text ELSE <<>>

\* _generate_draft: the stripped text generate returns; generate never
\* raises, so the except branch (None) is not taken
_generate_draft(chat) == StripText(generate(chat))

\* get_suggestion: env holds the answers of the outside world (the three
\* chats, the sources, the reranker); similar is the answer of the decisions
\* query, one of _get_similar_decisions.  The result's tier is not a field of
\* the program's result: it names the code that computed the answer (the
\* response scan, the vote, or the table).
get_suggestion(message, use_llm, env, decs, similar) ==
    LET message_analysis == _analyze_message(use_llm, env.analysisChat)
        retrieved_context == _retrieve_context(message, env, decs)
        tier == IF use_llm /\ similar # <<>>
                THEN (IF generate_raises(env.suggestChat) THEN "voting" ELSE "model")
                ELSE IF similar # <<>> THEN "voting"
                ELSE "heuristic"
        decided == IF use_llm /\ similar # <<>>
                   THEN _llm_based_suggestion(env.suggestChat, similar,
                                              message.sender_type)
                   ELSE IF similar # <<>>
                   THEN _precedent_voting(similar, message.sender_type)
                   ELSE _fallback_heuristics(message, message_analysis)
        draft_response == IF use_llm THEN _generate_draft(env.draftChat) ELSE <<>>
    IN [action |-> decided.action,
        tone |-> decided.tone,
        reasoning |-> decided.reasoning,
        precedent_count |-> Len(similar),
        similar_decisions |-> [i \in 1..Len(similar) |-> similar[i].id],
        message_analysis |-> message_analysis,
        context_sources |-> [i \in 1..Min(3, Len(retrieved_context)) |->
                                retrieved_context[i].source],
        has_draft |-> draft_response # <<>>,
        draft_response |-> draft_response,
        tier |-> tier]

(***************************************************************************)
(* main.py: the decision store and its graph projection.                   *)
(***************************************************************************)
\* the database of config.py is PostgreSQL, which enforces the foreign keys
\* models.py declares
ForeignKeysEnforced == TRUE

\* a decision row whose human_action column receives the agent's suggestion
DecisionKeepsSuggestion(id, message_id, suggestion, human, context, why, ts) ==
    [id |-> id, message_id |-> message_id, agent_suggestion |-> suggestion,
     human_action |-> suggestion, context_used |-> context, why |-> why,
     timestamp |-> ts]

\* a decision row whose timestamp column is left at a fixed value
DecisionUndated(id, message_id, suggestion, human, context, why, ts) ==
    [id |-> id, message_id |-> message_id, agent_suggestion |-> suggestion,
     human_action |-> human, context_used |-> context, why |-> why,
     timestamp |-> 0]

\* a decision as create_decision stores it
Decision(id, message_id, suggestion, human, context, why, ts) ==
    [id |-> id, message_id |-> message_id, agent_suggestion |-> suggestion,
     human_action |-> human, context_used |-> context, why |-> why,
     timestamp |-> ts]

\* node ids that carry the serial of the moment they are made
SerialNodeId(kind, key) == [kind |-> kind, key |-> key \o ToString(clock)]

\* f"msg_{id[:8]}", f"dec_{id[:8]}", f"action_{value}", ...
NodeId(kind, key) == [kind |-> kind, key |-> key]

GraphNode(id, node_type, label, ref) ==
    [id |-> id, node_type |-> node_type, label |-> label, ref |-> ref]

GraphEdge(source_id, target_id, edge_type) ==
    [source_id |-> source_id, target_id |-> target_id, edge_type |-> edge_type]

NodeIds(ns) == {nd.id : nd \in ns}

\* the message node _update_graph finds by properties["message_id"]
MessageNodesOf(ns, message) ==
    {nd \in ns : nd.node_type = "message" /\ nd.ref = message.id}

\* the node the message's edges start from: the one found, else a new one
MessageNode(ns, message) ==
    IF MessageNodesOf(ns, message) # {}
    THEN CHOOSE nd \in MessageNodesOf(ns, message) : TRUE
    ELSE GraphNode(NodeId("msg_", message.id.p), "message",
                   <<message.sender_name, message.sender_type>>, message.id)

DecisionNode(decision) ==
    GraphNode(NodeId("dec_", decision.id.p), "decision",
              <<"Decision", decision.human_action.action>>, decision.id)

\* the action, tone and sender_type nodes, looked up by id
ValueNode(kind, node_type, value) ==
    GraphNode(NodeId(kind, value), node_type, <<value>>, NoDecisionId)

\* the nodes _update_graph adds to the session: those it did not find
NewNodes(ns, decision, message) ==
    (IF MessageNodesOf(ns, message) = {} THEN {MessageNode(ns, message)} ELSE {})
    \cup {DecisionNode(decision)}
    \cup {nd \in {ValueNode("action_", "action", decision.human_action.action),
                  ValueNode("tone_", "tone", decision.human_action.tone),
                  ValueNode("sender_", "sender_type", message.sender_type)} :
            nd.id \notin NodeIds(ns)}

DecisionIds(decs) == {decs[i].id : i \in 1..Len(decs)}

\* the based_on_precedent edges: one per listed precedent that the decisions
\* table (the new decision included) resolves
RECURSIVE PrecedentEdges(_, _, _)
PrecedentEdges(decision, similar, decs) ==
    IF similar = <<>> THEN <<>>
    ELSE (IF Head(similar) \in DecisionIds(decs)
          THEN <<GraphEdge(DecisionNode(decision).id,
                           NodeId("dec_", Head(similar).p),
                           "based_on_precedent")>>
          ELSE <<>>)
         \o PrecedentEdges(decision, Tail(similar), decs)

\* an edge list without the edge to the sender_type node
EdgesWithoutSender(ns, decision, message, decs) ==
    LET dn == DecisionNode(decision).id
    IN << GraphEdge(MessageNode(ns, message).id, dn, "has_decision"),
          GraphEdge(dn, NodeId("action_", decision.human_action.action), "chose_action"),
          GraphEdge(dn, NodeId("tone_", decision.human_action.tone), "chose_tone") >>
       \o PrecedentEdges(decision, decision.context_used.similar_decisions, decs)

\* the edges _update_graph adds
NewEdges(ns, decision, message, decs) ==
    LET dn == DecisionNode(decision).id
    IN << GraphEdge(MessageNode(ns, message).id, dn, "has_decision"),
          GraphEdge(dn, NodeId("action_", decision.human_action.action), "chose_action"),
          GraphEdge(dn, NodeId("tone_", decision.human_action.tone), "chose_tone"),
          GraphEdge(dn, NodeId("sender_", message.sender_type), "from_sender_type") >>
       \o PrecedentEdges(decision, decision.context_used.similar_decisions, decs)

\* the precedent links create_decision adds, one per listed identifier
NewLinks(decision) ==
    [i \in 1..Len(decision.context_used.similar_decisions) |->
        [decision_id |-> decision.id,
         precedent_id |-> decision.context_used.similar_decisions[i]]]

\* what makes the flush or the commit raise: a new node whose primary key is
\* taken, or a link to a decision that does not exist
HasCollision(ns, decision, message) ==
    \E nd \in NewNodes(ns, decision, message) : nd.id \in NodeIds(ns)

HasDangling(decs, decision) ==
    \E i \in 1..Len(decision.context_used.similar_decisions) :
        decision.context_used.similar_decisions[i]
            \notin DecisionIds(decs) \cup {decision.id}

CommitFails(ns, decs, decision, message) ==
    \/ HasCollision(ns, decision, message)
    \/ ForeignKeysEnforced /\ HasDangling(decs, decision)

\* the entry create_decision adds to the vector store
VectorEntry(decision, message) ==
    [id |-> [k |-> "decision_", p |-> decision.id.p, n |-> decision.id.n],
     did |-> decision.id, sender_type |-> message.sender_type]

\* the response of POST /decisions
DecisionTrace(decision) ==
    [decision_id |-> decision.id, message_id |-> decision.message_id,
     agent_suggestion |-> decision.agent_suggestion,
     human_action |-> decision.human_action,
     context_used |-> decision.context_used, why |-> decision.why,
     timestamp |-> decision.timestamp]

\* a handler that commits the decision and its links before the graph update,
\* so that a failure of the update leaves them behind
CommitsBeforeGraph(data, prefix, vsFails) ==
    IF data.message_id \notin MessageIds
    THEN /\ out' = [op |-> "create", status |-> 404]
         /\ UNCHANGED <<decisions, links, nodes, edges, vstore, clock>>
    ELSE LET message == MessageById(data.message_id)
             decision == Decision([k |-> "uuid", p |-> prefix, n |-> clock + 1],
                                  data.message_id, data.agent_suggestion,
                                  data.human_action, data.context_used, data.why,
                                  clock + 1)
             decs == Append(decisions, decision)
             failed == CommitFails(nodes, decisions, decision, message)
         IN /\ decisions' = decs
            /\ links' = links \o NewLinks(decision)
            /\ nodes' = IF failed THEN nodes
                        ELSE nodes \cup NewNodes(nodes, decision, message)
            /\ edges' = IF failed THEN edges
                        ELSE edges \o NewEdges(nodes, decision, message, decs)
            /\ vstore' = vstore
            /\ clock' = clock + 1
            /\ out' = IF failed
                      THEN [op |-> "create", status |-> 500,
                            dangling |-> HasDangling(decisions, decision),
                            collides |-> HasCollision(nodes, decision, message)]
                      ELSE [op |-> "create", status |-> 200, request |-> data,
                            uuid |-> decision.id,
                            trace |-> DecisionTrace(decision)]

\* create_decision: data is the request body, prefix the first 8 characters
\* of the uuid drawn, vsFails whether the vector store write raises (which
\* the handler catches).  Nothing is persisted unless the commit succeeds.
create_decision(data, prefix, vsFails) ==
    IF data.message_id \notin MessageIds
    THEN /\ out' = [op |-> "create", status |-> 404]
         /\ UNCHANGED <<decisions, links, nodes, edges, vstore, clock>>
    ELSE LET message == MessageById(data.message_id)
             decision == Decision([k |-> "uuid", p |-> prefix, n |-> clock + 1],
                                  data.message_id, data.agent_suggestion,
                                  data.human_action, data.context_used, data.why,
                                  clock + 1)
             decs == Append(decisions, decision)
         IN IF CommitFails(nodes, decisions, decision, message)
            THEN /\ out' = [op |-> "create", status |-> 500,
                            dangling |-> HasDangling(decisions, decision),
                            collides |-> HasCollision(nodes, decision, message)]
                 /\ UNCHANGED <<decisions, links, nodes, edges, vstore, clock>>
            ELSE /\ decisions' = decs
                 /\ links' = links \o NewLinks(decision)
                 /\ nodes' = nodes \cup NewNodes(nodes, decision, message)
                 /\ edges' = edges \o NewEdges(nodes, decision, message, decs)
                 /\ vstore' = IF vsFails THEN vstore
                              ELSE vstore \cup {VectorEntry(decision, message)}
                 /\ clock' = clock + 1
                 /\ out' = [op |-> "create", status |-> 200, request |-> data,
                            uuid |-> decision.id,
                            trace |-> DecisionTrace(decision)]

\* get_decisions: every stored decision as a trace, newest first
get_decisions(decs) ==
    LET rows == SortDesc(decs, "timestamp")
    IN [i \in 1..Len(rows) |-> DecisionTrace(rows[i])]

\* a reset that forgets the graph_edges table
ResetKeepsEdges ==
    /\ decisions' = <<>>
    /\ links' = <<>>
    /\ nodes' = {}
    /\ out' = [op |-> "reset", status |-> 200]
    /\ UNCHANGED <<edges, vstore, clock>>

\* reset_demo: the four tables are emptied; the vector store is fetched and
\* left as it is
reset_demo ==
    /\ decisions' = <<>>
    /\ links' = <<>>
    /\ nodes' = {}
    /\ edges' = <<>>
    /\ out' = [op |-> "reset", status |-> 200]
    /\ UNCHANGED <<vstore, clock>>

\* the answers VectorStore.search can give to _vector_search: it raises, or
\* returns the stored decision entries of the sender type, nearest first
\* (the older the entry, the nearer)
VectorAnswers(sender_type) ==
    LET hits == {v \in vstore : v.sender_type = sender_type}
        nearest == CHOOSE arr \in Arrangements(hits, Cardinality(hits)) :
                      \A i, j \in 1..Cardinality(hits) :
                          i < j => arr[i].did.n < arr[j].did.n
    IN {Raised,
        Returned([i \in 1..Cardinality(hits) |->
                    [id |-> nearest[i].id, dist |-> 30 + nearest[i].did.n,
                     did |-> nearest[i].did]])}

\* what the language model may answer to the three prompts
AnalysisChats ==
    { ChatFailed,
      ChatSaid(<< <<"Intent", ":", " ", "question">>,
                  <<"Urgency", ":", " ", "low">> >>) }

SuggestionChats ==
    { ChatFailed,
      ChatSaid(<< <<"Action", ":", " ", "ignore">>, <<"Tone", ":", " ", "formal">>,
                  <<"Reasoning", ":", " ", "as", " ", "before">> >>),
      ChatSaid(<< <<"Action", ":", " ", "archive">> >>) }

DraftChats == { ChatFailed, ChatSaid(<< <<"Hi,", " ", "thanks!">> >>) }

\* the language model's three answers to one request: all there, the
\* suggestion unusable, or the model unreachable; without the LLM no chat is
\* made
ChatWorlds(use_llm) ==
    IF use_llm
    THEN { [analysisChat |-> a, suggestChat |-> s, draftChat |-> d] :
             a \in AnalysisChats, s \in SuggestionChats, d \in DraftChats }
    ELSE { [analysisChat |-> ChatNotCalled, suggestChat |-> ChatNotCalled,
            draftChat |-> ChatNotCalled] }

\* the services at their usual: the model answers every prompt, the
\* suggestion one with all three fields, or none
UsualChatWorlds(use_llm) ==
    {w \in ChatWorlds(use_llm) :
        /\ (w.analysisChat.err = w.suggestChat.err) /\ (w.suggestChat.err = w.draftChat.err)
        /\ Len(w.suggestChat.text) \in {0, 3}}

\* the worlds one suggestion request may meet
Worlds(message, chats) ==
    { [analysisChat |-> c.analysisChat, suggestChat |-> c.suggestChat,
       draftChat |-> c.draftChat, vraw |-> v, kraw |-> Returned(<<>>),
       dbFails |-> FALSE,
       rr |-> [err |-> FALSE, scores |-> [i \in 1..(2 * MaxDecisions) |-> 0]]] :
        c \in chats, v \in VectorAnswers(message.sender_type) }

\* POST /agent/suggest/{message_id}, and AgentEngine(db, use_llm=False) as
\* test_without_llm builds it: the engine's answer for a stored message
get_agent_suggestion(message_id, use_llm) ==
    IF message_id \notin MessageIds
    THEN /\ out' = [op |-> "suggest", status |-> 404]
         /\ UNCHANGED <<decisions, links, nodes, edges, vstore, clock>>
    ELSE LET message == MessageById(message_id)
         IN \E env \in Worlds(message, UsualChatWorlds(use_llm)) :
            \E similar \in _get_similar_decisions(
                               _retrieve_context(message, env, decisions), decisions) :
                /\ out' = [op |-> "suggest", status |-> 200,
                           message_id |-> message_id, use_llm |-> use_llm,
                           precedents |-> similar,
                           result |-> get_suggestion(message, use_llm, env,
                                                     decisions, similar)]
                /\ UNCHANGED <<decisions, links, nodes, edges, vstore, clock>>

(***************************************************************************)
(* The retriever on its own: retrieve applied to every request and every   *)
(* answer of the outside world within the bounds, over a decisions table   *)
(* drawn at the start.                                                     *)
(***************************************************************************)
DecId(i) == [k |-> "uuid", p |-> "d000000" \o ToString(i), n |-> 10 + i]

PlainDecision(i, message_id) ==
    Decision(DecId(i), message_id,
             [action |-> "reply_later", tone |-> "neutral"],
             [action |-> "reply_now", tone |-> "warm"],
             [sender_type |-> MessageById(message_id).sender_type,
              similar_decisions |-> <<>>],
             "why", i)

SampleStores ==
    { [i \in 1..Len(ms) |-> PlainDecision(i, ms[i])] :
        ms \in SeqsUpTo({MsgId(1), MsgId(2)}, 2) }

VectorRowPool ==
    { [id |-> MsgId(1), dist |-> 10, did |-> NoDecisionId],
      [id |-> DecId(1), dist |-> 50, did |-> DecId(1)] }

KeywordRowPool ==
    { [id |-> MsgId(1), bm25 |-> 9500],
      [id |-> MsgId(2), bm25 |-> 3000],
      [id |-> [k |-> "uuid", p |-> "99999999", n |-> 99], bm25 |-> 5000] }

RerankScores == {0, 1}

SourceAnswers(enabled, pool) ==
    IF enabled THEN {Raised} \cup {Returned(l) : l \in SeqsUpTo(pool, MaxSrcLen)}
    ELSE {NotCalled}

Requests ==
    [sender_type : {"", "investor"}, top_k : (0 - 1)..MaxTopK,
     use_vector : BOOLEAN, use_keyword : BOOLEAN, use_graph : BOOLEAN,
     rerank : BOOLEAN]

InitStore ==
    /\ links = <<>>
    /\ nodes = {}
    /\ edges = <<>>
    /\ vstore = {}
    /\ clock = 0
    /\ out = [op |-> "none"]

InitRetrieve ==
    /\ decisions \in SampleStores
    /\ InitStore

RetrieveCall ==
    /\ out.op = "none"
    /\ \E req \in Requests :
       \E vraw \in SourceAnswers(req.use_vector, VectorRowPool) :
       \E kraw \in SourceAnswers(req.use_keyword, KeywordRowPool) :
       \E dbFails \in (IF SourceEnabled(req).graph THEN BOOLEAN ELSE {FALSE}) :
           LET env0 == [vraw |-> vraw, kraw |-> kraw, dbFails |-> dbFails,
                        rr |-> RerankerNotCalled]
               n == Len(UniqueResults(req, env0, decisions))
           IN \E rr \in (IF req.rerank /\ n > 0
                         THEN {RerankerRaised}
                              \cup {[err |-> FALSE, scores |-> sc] :
                                       sc \in [1..n -> RerankScores]}
                         ELSE {RerankerNotCalled}) :
               LET env == [env0 EXCEPT !.rr = rr]
               IN /\ out' = [op |-> "retrieve", req |-> req, env |-> env,
                             src |-> SourceOutcomes(req, env, decisions),
                             result |-> retrieve(req, env, decisions)]
                  /\ UNCHANGED <<decisions, links, nodes, edges, vstore, clock>>

NextRetrieve == RetrieveCall

SpecRetrieve == InitRetrieve /\ [][NextRetrieve]_vars

(***************************************************************************)
(* Claims about retrieve.                                                  *)
(***************************************************************************)
IdsOf(items) == {items[i].id : i \in 1..Len(items)}

FirstWithId(items, id) ==
    items[CHOOSE i \in 1..Len(items) :
            /\ items[i].id = id
            /\ \A j \in 1..(i - 1) : items[j].id # id]

\* the highest-priority enabled source that produced id
BestSource(on, src, id) ==
    IF on.vector /\ id \in IdsOf(src.vector.items) THEN "vector"
    ELSE IF on.keyword /\ id \in IdsOf(src.keyword.items) THEN "keyword"
    ELSE "graph"

ProducedBy(on, src, tag, id) == on[tag] /\ id \in IdsOf(src[tag].items)

RetrieveReturned == out.op = "retrieve" /\ out.result.status = "ok"

\* C1: the list retrieve returns holds each identifier at most once, and the
\* candidate kept for an identifier is the one of the highest-priority source
\* that produced it (vector, then keyword, then graph), with that source's
\* score and metadata, with and without reranking.
C1_DedupKeepsHighestPriority ==
    RetrieveReturned =>
        LET items == out.result.items
            on == SourceEnabled(out.req)
        IN /\ \A i, j \in 1..Len(items) : i # j => items[i].id # items[j].id
           /\ \A i \in 1..Len(items) :
                LET best == BestSource(on, out.src, items[i].id)
                    kept == FirstWithId(out.src[best].items, items[i].id)
                IN /\ ProducedBy(on, out.src, best, items[i].id)
                   /\ items[i].source = best
                   /\ items[i].score = kept.score
                   /\ items[i].did = kept.did

\* C1 witness: a reranked answer holding one identifier that vector and
\* keyword both produced and one that vector and graph both produced
C1_Witness ==
    /\ RetrieveReturned
    /\ out.req.rerank
    /\ LET on == SourceEnabled(out.req)
           got == IdsOf(out.result.items)
       IN /\ \E id \in got : /\ ProducedBy(on, out.src, "vector", id)
                             /\ ProducedBy(on, out.src, "keyword", id)
          /\ \E id \in got : /\ ProducedBy(on, out.src, "vector", id)
                             /\ ProducedBy(on, out.src, "graph", id)

\* the sources retrieve called that raised
FailedSources(on, src) == {t \in {"vector", "keyword", "graph"} : on[t] /\ src[t].err}

\* the request with the failed sources switched off: what is left is the
\* contribution of the others
WithoutFailed(req, failed) ==
    [req EXCEPT !.use_vector = req.use_vector /\ "vector" \notin failed,
                !.use_keyword = req.use_keyword /\ "keyword" \notin failed,
                !.use_graph = req.use_graph /\ "graph" \notin failed]

\* C2 (as claimed): when exactly one enabled source raises, retrieve still
\* returns, and returns what the other enabled sources give, deduplicated and
\* ranked, the failed source contributing nothing.
C2_SourceFailureIsContained ==
    (/\ out.op = "retrieve"
     /\ Cardinality(FailedSources(SourceEnabled(out.req), out.src)) = 1
     /\ ~(out.req.rerank /\ out.env.rr.err))
    => LET failed == FailedSources(SourceEnabled(out.req), out.src)
       IN out.result = retrieve(WithoutFailed(out.req, failed), out.env, decisions)

(***************************************************************************)
(* The three tiers on their own: each is applied once to every input       *)
(* within the bounds.                                                      *)
(***************************************************************************)
InitEmpty ==
    /\ decisions = <<>>
    /\ InitStore

HumanPairs ==
    [action : {"reply_now", "ignore", "archive"}, tone : {"warm", "formal"}]

\* the precedents a list of human choices stands for
PrecedentsOf(pairs) ==
    [i \in 1..Len(pairs) |->
        Decision(DecId(i), MsgId(1),
                 [action |-> "reply_later", tone |-> "neutral"], pairs[i],
                 [sender_type |-> "investor", similar_decisions |-> <<>>],
                 "why", i)]

VoteCall ==
    /\ out.op = "none"
    /\ \E pairs \in SeqsUpTo(HumanPairs, MaxPrecedents) \ {<<>>} :
       \E sender_type \in {"investor", "sales"} :
           out' = [op |-> "vote", precedents |-> PrecedentsOf(pairs),
                   sender_type |-> sender_type,
                   result |-> _precedent_voting(PrecedentsOf(pairs), sender_type)]
    /\ UNCHANGED <<decisions, links, nodes, edges, vstore, clock>>

NextVote == VoteCall

SpecVote == InitEmpty /\ [][NextVote]_vars

SuggestionLinePool ==
    { <<"Action", ":", " ", "reply_now">>,
      <<"Action", ":", "Ignore", " ">>,
      <<"Action", ":", " ", "archive">>,
      <<"Action", ":", " ", "warm">>,
      <<"Action", ":", " ", "reply_now", " ", "please">>,
      <<"action", ":", " ", "ignore">>,
      <<" ", "Action", ":", " ", "ignore">>,
      <<"Tone", ":", " ", "Warm">>,
      <<"Tone", ":", " ", "formal">>,
      <<"Tone", ":", " ", "angry">>,
      <<"Tone", ":">>,
      <<"Reasoning", ":", " ", "Precedent", ":", " ", "1">>,
      <<"Sure!">> }

LLMSuggestionCall ==
    /\ out.op = "none"
    /\ \E chat \in {ChatFailed}
                   \cup {ChatSaid(t) : t \in SeqsUpTo(SuggestionLinePool, MaxLines)} :
           out' = [op |-> "llm_suggest", chat |-> chat,
                   result |-> _llm_based_suggestion(
                                  chat, PrecedentsOf(<<[action |-> "ignore",
                                                        tone |-> "formal"]>>),
                                  "investor")]
    /\ UNCHANGED <<decisions, links, nodes, edges, vstore, clock>>

NextLLMSuggestion == LLMSuggestionCall

SpecLLMSuggestion == InitEmpty /\ [][NextLLMSuggestion]_vars

Absent == <<"(absent)">>

IntentValues ==
    { <<"unknown">>, <<"question">>, <<"urgent_request">>, <<"sales_pitch">>,
      <<"newsletter">>, <<"general_inquiry">>, <<"Question">>, <<>> }

UrgencyValues ==
    { <<"medium">>, <<"high">>, <<"critical">>, <<"low">>, <<"High">>, <<>> }

\* an analysis with the given intent and urgency, either of which may be absent
AnalysisWith(intent, urgency) ==
    [f \in (IF intent = Absent THEN {} ELSE {"intent"})
           \cup (IF urgency = Absent THEN {} ELSE {"urgency"}) |->
        IF f = "intent" THEN intent ELSE urgency]

Analyses ==
    {AnalysisWith(i, u) : i \in IntentValues \cup {Absent},
                          u \in UrgencyValues \cup {Absent}}

SenderTypes == {"investor", "sales", "support", "other", "partner"}

Contents ==
    { <<"Quick", " ", "check-in">>,
      <<"Join", " ", "our", " ", "Webinar">>,
      <<"Register now", " ", "to", " ", "save">>,
      <<"weekly", " ", "newsletter">> }

HeuristicsCall ==
    /\ out.op = "none"
    /\ \E sender_type \in SenderTypes :
       \E content \in Contents :
       \E analysis \in Analyses :
           LET message == [id |-> MsgId(1), sender_name |-> "X",
                           sender_type |-> sender_type, content |-> content]
           IN out' = [op |-> "heuristics", message |-> message,
                      analysis |-> analysis,
                      result |-> _fallback_heuristics(message, analysis)]
    /\ UNCHANGED <<decisions, links, nodes, edges, vstore, clock>>

NextHeuristics == HeuristicsCall

SpecHeuristics == InitEmpty /\ [][NextHeuristics]_vars

(***************************************************************************)
(* Claims about the tiers.                                                 *)
(***************************************************************************)
\* the value of an "Action:" or "Tone:" line as the tier reads it
LineValue(line) == Lower(Strip(AfterColon(line)))

\* the values the valid lines of one field give
ValidValues(text, word, allowed) ==
    {LineValue(text[i])[1] : i \in
        {j \in 1..Len(text) : /\ StartsWith(text[j], word)
                              /\ Len(LineValue(text[j])) = 1
                              /\ LineValue(text[j])[1] \in allowed}}

HasInvalidLine(text, word, allowed) ==
    \E j \in 1..Len(text) :
        /\ StartsWith(text[j], word)
        /\ ~(Len(LineValue(text[j])) = 1 /\ LineValue(text[j])[1] \in allowed)

\* C6: whatever the response, the model-assisted tier returns an action and
\* a tone of the enumerations; lines with a value outside them are ignored;
\* without a valid Action line the action is reply_later, without a valid
\* Tone line the tone is neutral; a valid value of one field is kept whatever
\* the other field's lines are.
C6_ParseKeepsOnlyValidValues ==
    out.op = "llm_suggest" =>
        LET text == IF out.chat.err THEN _fallback_response ELSE out.chat.text
            acts == ValidValues(text, "Action", ValidActions)
            tones == ValidValues(text, "Tone", ValidTones)
        IN /\ out.result.action \in ValidActions
           /\ out.result.tone \in ValidTones
           /\ acts = {} => out.result.action = "reply_later"
           /\ acts # {} => out.result.action \in acts
           /\ tones = {} => out.result.tone = "neutral"
           /\ tones # {} => out.result.tone \in tones

\* C6 witness: a response with a valid Action line and an invalid Tone line
\* gave that action with the default tone
C6_Witness ==
    /\ out.op = "llm_suggest"
    /\ ~out.chat.err
    /\ ValidValues(out.chat.text, "Action", ValidActions) = {"ignore"}
    /\ HasInvalidLine(out.chat.text, "Tone", ValidTones)
    /\ out.result.action = "ignore"
    /\ out.result.tone = "neutral"

HumanActionsOf(precedents) ==
    [i \in 1..Len(precedents) |-> precedents[i].human_action.action]

HumanTonesOf(precedents) ==
    [i \in 1..Len(precedents) |-> precedents[i].human_action.tone]

Occurrences(vals, v) == Cardinality({i \in 1..Len(vals) : vals[i] = v})

IsMostFrequent(vals, v) ==
    /\ Occurrences(vals, v) >= 1
    /\ \A i \in 1..Len(vals) : Occurrences(vals, v) >= Occurrences(vals, vals[i])

\* C7: for a non-empty list of precedents the vote returns an action no other
\* action occurs more often than among the human actions and, independently,
\* such a tone among the human tones; its reasoning holds the number of
\* precedents and both chosen values.
C7_VoteReturnsMostFrequent ==
    out.op = "vote" =>
        /\ IsMostFrequent(HumanActionsOf(out.precedents), out.result.action)
        /\ IsMostFrequent(HumanTonesOf(out.precedents), out.result.tone)
        /\ ToString(Len(out.precedents)) \in SeqToSet(out.result.reasoning)
        /\ out.result.action \in SeqToSet(out.result.reasoning)
        /\ out.result.tone \in SeqToSet(out.result.reasoning)

\* C7 witness: the vote over actions (ignore, reply_now, reply_now) and tones
\* (warm, warm, formal), whose majorities sit in different precedents
C7_Witness ==
    /\ out.op = "vote"
    /\ HumanActionsOf(out.precedents) = <<"ignore", "reply_now", "reply_now">>
    /\ HumanTonesOf(out.precedents) = <<"warm", "warm", "formal">>
    /\ out.result.action = "reply_now"
    /\ out.result.tone = "warm"
    /\ "3" \in SeqToSet(out.result.reasoning)

\* an analysis that overrides the sender-type table
Overrides(analysis) ==
    \/ "urgency" \in DOMAIN analysis
       /\ analysis.urgency \in {<<"high">>, <<"critical">>}
    \/ "intent" \in DOMAIN analysis
       /\ analysis.intent \in {<<"urgent_request">>, <<"question">>,
                               <<"sales_pitch">>, <<"newsletter">>}

Gives(result, action, tone) == result.action = action /\ result.tone = tone

\* C8: without an overriding analysis the heuristic tier answers
\* (reply_now, neutral) to an investor, (reply_now, warm) to support and
\* (reply_later, neutral) to every sender type other than investor, sales
\* and support.
C8_SenderTypeTable ==
    (out.op = "heuristics" /\ ~Overrides(out.analysis)) =>
        /\ out.message.sender_type = "investor"
              => Gives(out.result, "reply_now", "neutral")
        /\ out.message.sender_type = "support"
              => Gives(out.result, "reply_now", "warm")
        /\ out.message.sender_type \notin {"investor", "sales", "support"}
              => Gives(out.result, "reply_later", "neutral")

\* C8 witness: a support message with an analysis that lacks both fields
C8_Witness ==
    /\ out.op = "heuristics"
    /\ out.analysis = AnalysisWith(Absent, Absent)
    /\ out.message.sender_type = "support"
    /\ Gives(out.result, "reply_now", "warm")

SpamKeywords == {"webinar", "newsletter", "register now"}

ContainsSpam(content) ==
    \E i \in 1..Len(content) : LowerToken(content[i]) \in SpamKeywords

\* C9 (as claimed): without an overriding analysis the heuristic tier answers
\* (ignore, neutral) to a sales message that holds webinar, newsletter or
\* register now in any case, and (reply_later, formal) to any other sales
\* message.
C9_SalesSpamCheck ==
    (/\ out.op = "heuristics"
     /\ ~Overrides(out.analysis)
     /\ out.message.sender_type = "sales")
    => IF ContainsSpam(out.message.content)
       THEN Gives(out.result, "ignore", "neutral")
       ELSE Gives(out.result, "reply_later", "formal")

(***************************************************************************)
(* The service: decisions are recorded, the demo is reset and suggestions  *)
(* are asked for, in any order.                                            *)
(***************************************************************************)
UuidPrefixes == {"3f2a91c0", "b7e4d215"}

GhostId == [k |-> "uuid", p |-> "deadbeef", n |-> 0]

RequestedMessageIds == {MsgId(1), MsgId(2), GhostId}

RecordedChoices ==
    { [action |-> "reply_now", tone |-> "warm"],
      [action |-> "archive", tone |-> "angry"] }

\* the bodies POST /decisions is called with
DecisionBodies ==
    [message_id : RequestedMessageIds,
     agent_suggestion : {[action |-> "reply_later", tone |-> "neutral"]},
     human_action : RecordedChoices,
     context_used : [sender_type : {"investor"},
                     similar_decisions :
                        SeqsUpTo(DecisionIds(decisions) \cup {GhostId}, 2)],
     why : {"why"}]

Init ==
    /\ decisions = <<>>
    /\ InitStore

CreateDecision ==
    /\ clock < MaxDecisions
    /\ \E data \in DecisionBodies :
       \E prefix \in UuidPrefixes :
       \E vsFails \in BOOLEAN :
           create_decision(data, prefix, vsFails)

ResetDemo == reset_demo

GetAgentSuggestion ==
    \E message_id \in RequestedMessageIds :
    \E use_llm \in BOOLEAN :
        get_agent_suggestion(message_id, use_llm)

GetDecisions ==
    /\ out' = [op |-> "list", status |-> 200, traces |-> get_decisions(decisions)]
    /\ UNCHANGED <<decisions, links, nodes, edges, vstore, clock>>

Next == CreateDecision \/ ResetDemo \/ GetAgentSuggestion \/ GetDecisions

Spec == Init /\ [][Next]_vars

\* C3: after any sequence of recorded decisions, resets and suggestions,
\* every suggestion the engine returns has its action among reply_now,
\* reply_later, ignore and its tone among warm, neutral, formal, whatever
\* the stored decisions carry.
C3_SuggestionAlwaysValid ==
    (out.op = "suggest" /\ out.status = 200)
        => /\ out.result.action \in ValidActions
           /\ out.result.tone \in ValidTones

(***************************************************************************)
(* AgentEngine.get_suggestion on its own: one request against a store of   *)
(* decisions, for every answer of the language model, the sources and the  *)
(* decisions query.                                                        *)
(***************************************************************************)
AnalysisLinePool ==
    { <<"Intent", ":", " ", "question">>,
      <<"Intent", ":", " ", "sales_pitch">>,
      <<"Intent", ":", " ", "chitchat">>,
      <<"Urgency", ":", " ", "High">>,
      <<"Urgency", ":", " ", "critical">>,
      <<"no", " ", "idea">> }

SuggestedMessages ==
    Messages \cup { [id |-> GhostId, sender_name |-> "Pat",
                     sender_type |-> "partner", content |-> <<"hello">>] }

SuggestChatWorlds(use_llm) ==
    IF use_llm
    THEN { [analysisChat |-> a, suggestChat |-> s, draftChat |-> d] :
             a \in {ChatFailed}
                   \cup {ChatSaid(t) : t \in SeqsUpTo(AnalysisLinePool, MaxLines)},
             s \in SuggestionChats, d \in DraftChats }
    ELSE ChatWorlds(FALSE)

SuggestWorlds(message, use_llm) ==
    { [w EXCEPT !.dbFails = f] :
        w \in Worlds(message, SuggestChatWorlds(use_llm)), f \in BOOLEAN }

InitSuggest ==
    /\ decisions \in SampleStores
    /\ InitStore

SuggestCall ==
    /\ out.op = "none"
    /\ \E message \in SuggestedMessages :
       \E use_llm \in BOOLEAN :
       \E env \in SuggestWorlds(message, use_llm) :
       \E similar \in _get_similar_decisions(
                          _retrieve_context(message, env, decisions), decisions) :
           out' = [op |-> "get_suggestion", message |-> message,
                   use_llm |-> use_llm, env |-> env, precedents |-> similar,
                   result |-> get_suggestion(message, use_llm, env, decisions,
                                             similar)]
    /\ UNCHANGED <<decisions, links, nodes, edges, vstore, clock>>

NextSuggest == SuggestCall

SpecSuggest == InitSuggest /\ [][NextSuggest]_vars

\* the model-assisted tier failed: the call errored, or the response has no
\* Action, Tone or Reasoning line
ModelTierFailed(chat) ==
    \/ chat.err
    \/ ~\E i \in 1..Len(chat.text) :
          \E word \in {"Action", "Tone", "Reasoning"} : StartsWith(chat.text[i], word)

\* C4: each request is resolved by exactly one tier chosen top-down: the
\* table if and only if no precedent was resolved, the vote if and only if
\* there is a precedent and the model is not used or failed, the model's
\* answer if and only if there is a precedent, the model is used and it did
\* not fail.
C4_OneTierTopDown ==
    out.op = "get_suggestion"
        => LET pre == out.precedents # <<>>
               failed == ModelTierFailed(out.env.suggestChat)
           IN /\ (out.result.tier = "heuristic") <=> ~pre
              /\ (out.result.tier = "voting") <=> (pre /\ (~out.use_llm \/ failed))
              /\ (out.result.tier = "model") <=> (pre /\ out.use_llm /\ ~failed)

\* C5: when the model-assisted tier fails for a request with at least one
\* precedent, the action, tone and reasoning returned are those of the vote
\* over the same precedents.
C5_ModelFailureGivesTheVote ==
    ( /\ out.op = "get_suggestion"
      /\ out.use_llm
      /\ out.precedents # <<>>
      /\ ModelTierFailed(out.env.suggestChat) )
        => LET vote == _precedent_voting(out.precedents, out.message.sender_type)
           IN /\ out.result.action = vote.action
              /\ out.result.tone = vote.tone
              /\ out.result.reasoning = vote.reasoning

\* C10: with no precedent resolved, the suggestion has a non-empty action
\* among reply_now, reply_later, ignore and a non-empty tone among warm,
\* neutral, formal, for every sender type and every analysis, with or
\* without the language model.
C10_NoPrecedentStillValid ==
    (out.op = "get_suggestion" /\ out.precedents = <<>>)
        => /\ out.result.action \in ValidActions \ {""}
           /\ out.result.tone \in ValidTones \ {""}

\* a request without precedents, from a sender type the table does not list,
\* whose analysis has neither intent nor urgency
C10_Witness ==
    /\ out.op = "get_suggestion"
    /\ out.precedents = <<>>
    /\ out.use_llm
    /\ out.message.sender_type = "partner"
    /\ DOMAIN out.result.message_analysis = {}
    /\ out.result.tier = "heuristic"
    /\ out.result.action = "reply_later"

(***************************************************************************)
(* AgentEngine._get_similar_decisions on its own: a candidate list against *)
(* a store whose decisions were recorded one after the other.              *)
(***************************************************************************)
\* the first n decisions recorded
StoreOf(n) == [i \in 1..n |-> PlainDecision(i, MsgId(1))]

\* how the candidates of a list are tagged, by position
Taggings == {"graph", "precedent", "vector", "mixed", "bare"}

SourceAt(tagging, i) ==
    IF tagging = "mixed" THEN (IF i % 2 = 1 THEN "graph" ELSE "keyword")
    ELSE IF tagging = "bare" THEN "graph"
    ELSE tagging

\* the candidate for decision number d at position i; a bare candidate at an
\* even position has no decision_id in its metadata
Candidate(tagging, i, d) ==
    [id |-> DecId(d), score |-> GraphScore,
     did |-> IF tagging = "bare" /\ i % 2 = 0 THEN NoDecisionId ELSE DecId(d),
     source |-> SourceAt(tagging, i)]

\* the decision numbers of a set, newest first or oldest first
RECURSIVE Ordered(_, _)
Ordered(ds, newestFirst) ==
    IF ds = {} THEN <<>>
    ELSE LET d == IF newestFirst THEN CHOOSE x \in ds : \A y \in ds : y <= x
                   ELSE CHOOSE x \in ds : \A y \in ds : x <= y
         IN <<d>> \o Ordered(ds \ {d}, newestFirst)

\* the candidate lists the extractor is handed: any set of decision numbers
\* (one more than can be stored, so that some are missing), in either order,
\* tagged in one of the ways, the whole list once or twice over
CandidateLists ==
    { LET listed == IF twice THEN order \o order ELSE order
      IN [i \in 1..Len(listed) |-> Candidate(tagging, i, listed[i])] :
        order \in {Ordered(ds, nf) : ds \in SUBSET (1..(MaxStored + 1)), nf \in BOOLEAN},
        tagging \in Taggings, twice \in BOOLEAN }

InitPrecedents ==
    /\ decisions \in {StoreOf(n) : n \in 0..MaxStored}
    /\ InitStore

PrecedentsCall ==
    /\ out.op = "none"
    /\ \E candidates \in CandidateLists :
       \E found \in _get_similar_decisions(candidates, decisions) :
           out' = [op |-> "precedents", candidates |-> candidates,
                   result |-> found]
    /\ UNCHANGED <<decisions, links, nodes, edges, vstore, clock>>

NextPrecedents == PrecedentsCall

SpecPrecedents == InitPrecedents /\ [][NextPrecedents]_vars

\* the position of the first candidate that references decision id
FirstReference(candidates, id) ==
    CHOOSE i \in 1..Len(candidates) :
        /\ candidates[i].did = id
        /\ \A j \in 1..(i - 1) : candidates[j].did # id

\* C11: the decisions the precedent extractor returns are in the same
\* relative order as the candidates that reference them.
C11_PrecedentsKeepCandidateOrder ==
    out.op = "precedents"
        => \A i, j \in 1..Len(out.result) :
              i < j => FirstReference(out.candidates, out.result[i].id)
                           < FirstReference(out.candidates, out.result[j].id)

\* C12: the precedent extractor returns at most 5 decisions, no decision
\* twice, each one stored and referenced by the decision_id of a candidate
\* tagged graph or precedent.
C12_PrecedentsBoundedAndResolved ==
    out.op = "precedents"
        => /\ Len(out.result) <= 5
           /\ \A i, j \in 1..Len(out.result) : i # j => out.result[i] # out.result[j]
           /\ \A i \in 1..Len(out.result) :
                /\ out.result[i] \in SeqToSet(decisions)
                /\ \E c \in 1..Len(out.candidates) :
                      /\ out.candidates[c].source \in {"graph", "precedent"}
                      /\ out.candidates[c].did = out.result[i].id

\* more than 5 stored decisions are referenced, next to a missing one and to
\* candidates of another source, and 5 come back
C12_Witness ==
    /\ out.op = "precedents"
    /\ Len(out.result) = 5
    /\ Cardinality({d \in SeqToSet(decisions) :
                       \E c \in 1..Len(out.candidates) :
                           /\ out.candidates[c].did = d.id
                           /\ out.candidates[c].source = "graph"}) > 5
    /\ \E c \in 1..Len(out.candidates) :
          out.candidates[c].did \notin DecisionIds(decisions) \cup {NoDecisionId}
    /\ \E c \in 1..Len(out.candidates) : out.candidates[c].source = "keyword"

(***************************************************************************)
(* The graph projection of the recorded decisions                          *)
(***************************************************************************)
NodesOfType(ns, node_type) == {nd \in ns : nd.node_type = node_type}

EdgesOfType(es, edge_type) == {i \in 1..Len(es) : es[i].edge_type = edge_type}

StructuralTypes == {"has_decision", "chose_action", "chose_tone", "from_sender_type"}

StructuralEdges(es) == {i \in 1..Len(es) : es[i].edge_type \in StructuralTypes}

\* a record operation succeeded in this step
Recorded == Len(decisions') = Len(decisions) + 1

\* the decision a successful record has just stored
Newest(decs) == decs[Len(decs)]

\* the edges a step added
AddedEdges == SubSeq(edges', Len(edges) + 1, Len(edges'))

\* the listed precedents of d that the store resolves, with repetitions
ResolvableLinks(d, decs) ==
    {i \in 1..Len(d.context_used.similar_decisions) :
        d.context_used.similar_decisions[i] \in DecisionIds(decs)}

\* C13: each successful record adds exactly one decision node, exactly the
\* four structural edges (message node to decision node, decision node to
\* its action, tone and sender_type nodes) and one based_on_precedent edge
\* per linked precedent that exists; so the decision nodes are as many as
\* the decisions and the structural edges four times as many.
C13_RecordAddsOneNodeFourEdges ==
    /\ [](/\ Cardinality(NodesOfType(nodes, "decision")) = Len(decisions)
          /\ Cardinality(StructuralEdges(edges)) = 4 * Len(decisions))
    /\ [][Recorded =>
            LET d == Newest(decisions')
                message == MessageById(d.message_id)
                dn == NodeId("dec_", d.id.p)
                has(src, tgt, ty) ==
                    Cardinality({i \in 1..Len(AddedEdges) :
                        AddedEdges[i] = GraphEdge(src, tgt, ty)}) = 1
            IN /\ NodesOfType(nodes', "decision") \ NodesOfType(nodes, "decision")
                    = {DecisionNode(d)}
               /\ DecisionNode(d) \notin nodes
               /\ Cardinality(StructuralEdges(AddedEdges)) = 4
               /\ \E mn \in NodesOfType(nodes', "message") :
                     mn.ref = message.id /\ has(mn.id, dn, "has_decision")
               /\ has(dn, NodeId("action_", d.human_action.action), "chose_action")
               /\ has(dn, NodeId("tone_", d.human_action.tone), "chose_tone")
               /\ has(dn, NodeId("sender_", message.sender_type), "from_sender_type")
               /\ Cardinality(EdgesOfType(AddedEdges, "based_on_precedent"))
                    = Cardinality(ResolvableLinks(d, decisions))
               /\ Len(AddedEdges)
                    = 4 + Cardinality(ResolvableLinks(d, decisions))
          ]_vars

\* a second decision was recorded with two links to the first
C13_Witness ==
    /\ out.op = "create" /\ out.status = 200
    /\ Len(decisions) = 2
    /\ Len(decisions[2].context_used.similar_decisions) = 2
    /\ Cardinality(EdgesOfType(edges, "based_on_precedent")) = 2
    /\ Cardinality(StructuralEdges(edges)) = 8

\* C14: the graph holds at most one action node per action value, one tone
\* node per tone value, one sender_type node per sender type and one message
\* node per message: a record whose values already have nodes reuses them.
C14_ValueNodesAreSingletons ==
    \A n1, n2 \in nodes :
        /\ ( /\ n1.node_type = n2.node_type
             /\ n1.node_type \in {"action", "tone", "sender_type"}
             /\ n1.label = n2.label ) => n1 = n2
        /\ ( /\ n1.node_type = "message"
             /\ n2.node_type = "message"
             /\ n1.ref = n2.ref ) => n1 = n2

\* two decisions on the same message with the same action and tone are
\* stored, over one node of each kind
C14_Witness ==
    /\ Len(decisions) = 2
    /\ decisions[1].message_id = decisions[2].message_id
    /\ decisions[1].human_action = decisions[2].human_action
    /\ Cardinality(NodesOfType(nodes, "message")) = 1
    /\ Cardinality(NodesOfType(nodes, "action")) = 1
    /\ Cardinality(NodesOfType(nodes, "tone")) = 1
    /\ Cardinality(NodesOfType(nodes, "sender_type")) = 1
    /\ Cardinality(NodesOfType(nodes, "decision")) = 2

\* C15: recording a decision whose context lists a precedent identifier that
\* resolves to no decision succeeds: the decision is persisted with its
\* decision node and four structural edges, and no error reaches the caller.
C15_DanglingPrecedentIsSkipped ==
    (out.op = "create" /\ out.status = 500) => (~out.dangling \/ out.collides)

\* the links, the decision node and the structural edges of decision d
LinksOf(d) == {i \in 1..Len(links) : links[i].decision_id = d.id}

HasFullEdgeSet(d) ==
    LET dn == NodeId("dec_", d.id.p)
        message == MessageById(d.message_id)
    IN /\ \E i \in 1..Len(edges) :
            /\ edges[i].edge_type = "has_decision"
            /\ edges[i].target_id = dn
            /\ \E mn \in NodesOfType(nodes, "message") :
                  mn.id = edges[i].source_id /\ mn.ref = message.id
       /\ \E i \in 1..Len(edges) :
            edges[i] = GraphEdge(dn, NodeId("action_", d.human_action.action),
                                 "chose_action")
       /\ \E i \in 1..Len(edges) :
            edges[i] = GraphEdge(dn, NodeId("tone_", d.human_action.tone),
                                 "chose_tone")
       /\ \E i \in 1..Len(edges) :
            edges[i] = GraphEdge(dn, NodeId("sender_", message.sender_type),
                                 "from_sender_type")

\* C16: a record is atomic: every persisted state holds a decision together
\* with all its links, its decision node and its edges, and nothing of a
\* decision that is not stored; a failed create_decision leaves the decision,
\* link, node and edge collections as they were.
C16_RecordIsAtomic ==
    /\ [](/\ \A i \in 1..Len(decisions) :
               /\ DecisionNode(decisions[i]) \in nodes
               /\ HasFullEdgeSet(decisions[i])
               /\ Cardinality(LinksOf(decisions[i]))
                    = Len(decisions[i].context_used.similar_decisions)
          /\ \A nd \in NodesOfType(nodes, "decision") :
               nd.ref \in DecisionIds(decisions)
          /\ \A i \in 1..Len(links) : links[i].decision_id \in DecisionIds(decisions)
          /\ \A i \in 1..Len(edges) :
               \A end \in {edges[i].source_id, edges[i].target_id} :
                   end.kind = "dec_" => end \in NodeIds(nodes))
    /\ [][(out'.op = "create" /\ out'.status # 200)
            => UNCHANGED <<decisions, links, nodes, edges>>]_vars

\* a create_decision failed on a store that holds a decision, after another
\* had succeeded
C16_Witness ==
    /\ out.op = "create" /\ out.status = 500
    /\ Len(decisions) = 1
    /\ Len(edges) = 4
    /\ clock = 1

\* the trace get_decisions returns for identifier id
ReadBack(decs, id) ==
    LET traces == get_decisions(decs)
    IN traces[CHOOSE i \in 1..Len(traces) : traces[i].decision_id = id]

\* C17: a decision recorded and read back by its identifier has the human
\* action, agent suggestion, context_used and why that were submitted,
\* whatever is recorded afterwards, until a reset.
C17_RecordedDecisionReadsBackEqual ==
    /\ [][Recorded =>
            LET t == ReadBack(decisions', out'.uuid)
            IN /\ t.human_action = out'.request.human_action
               /\ t.agent_suggestion = out'.request.agent_suggestion
               /\ t.context_used = out'.request.context_used
               /\ t.why = out'.request.why
               /\ t.message_id = out'.request.message_id]_vars
    /\ [][\A id \in DecisionIds(decisions) \cap DecisionIds(decisions') :
            ReadBack(decisions', id) = ReadBack(decisions, id)]_vars

\* the list shows two decisions, the older one as it was recorded
C17_Witness ==
    /\ out.op = "list"
    /\ Len(out.traces) = 2
    /\ out.traces[2].human_action = [action |-> "archive", tone |-> "angry"]
    /\ out.traces[1].human_action = [action |-> "reply_now", tone |-> "warm"]
    /\ out.traces[1].context_used.similar_decisions = <<out.traces[2].decision_id>>

(***************************************************************************)
(* retriever.py: reciprocal_rank_fusion.  The scores 1 / (k + rank + 1)    *)
(* are kept exact: every one is multiplied by RRFScale(k), a common        *)
(* multiple of the denominators that can occur.                            *)
(***************************************************************************)
RECURSIVE RRFScale(_, _)
RRFScale(k, n) == IF n = 0 THEN 1 ELSE (k + n) * RRFScale(k, n - 1)

\* 1 / (k + rank + 1)
Reciprocal(k, rank) == RRFScale(k, MaxRankLen) \div (k + rank + 1)

NoScores == [keys |-> <<>>, val |-> [x \in {} |-> 0]]

\* a step that assigns the term instead of adding it
AssignScore(scores, item_id, term) ==
    [keys |-> IF item_id \in DOMAIN scores.val THEN scores.keys
              ELSE Append(scores.keys, item_id),
     val |-> [x \in DOMAIN scores.val \cup {item_id} |->
                IF x = item_id THEN term ELSE scores.val[x]]]

\* if item_id not in scores: scores[item_id] = 0; scores[item_id] += term.
\* keys is the dict's insertion order
AddScore(scores, item_id, term) ==
    [keys |-> IF item_id \in DOMAIN scores.val THEN scores.keys
              ELSE Append(scores.keys, item_id),
     val |-> [x \in DOMAIN scores.val \cup {item_id} |->
                IF x = item_id
                THEN (IF x \in DOMAIN scores.val THEN scores.val[x] ELSE 0) + term
                ELSE scores.val[x]]]

\* for rank, item_id in enumerate(ranking), from zero-based position rank on
RECURSIVE ScoreRanking(_, _, _, _)
ScoreRanking(scores, ranking, rank, k) ==
    IF ranking = <<>> THEN scores
    ELSE ScoreRanking(AddScore(scores, Head(ranking), Reciprocal(k, rank)),
                      Tail(ranking), rank + 1, k)

\* for ranking in rankings
RECURSIVE ScoreRankings(_, _, _)
ScoreRankings(scores, rankings, k) ==
    IF rankings = <<>> THEN scores
    ELSE ScoreRankings(ScoreRanking(scores, Head(rankings), 0, k),
                       Tail(rankings), k)

reciprocal_rank_fusion(rankings, k) ==
    LET scores == ScoreRankings(NoScores, rankings, k)
        items == [i \in 1..Len(scores.keys) |->
                    [id |-> scores.keys[i], score |-> scores.val[scores.keys[i]]]]
        fused == SortDesc(items, "score")
    IN [i \in 1..Len(fused) |-> fused[i].id]

RankedIds == {"m1", "m2", "m3"}

Copies(ranking, n) == [i \in 1..n |-> ranking]

InitRRF ==
    /\ decisions = <<>>
    /\ InitStore

RRFCall ==
    /\ out.op = "none"
    /\ \E ranking \in SeqsUpTo(RankedIds, MaxRankLen) :
       \E n \in 1..MaxCopies :
       \E k \in {DefaultK, 1} :
           out' = [op |-> "rrf", ranking |-> ranking, copies |-> n, k |-> k,
                   once |-> reciprocal_rank_fusion(<<ranking>>, k),
                   fused |-> reciprocal_rank_fusion(Copies(ranking, n), k)]
    /\ UNCHANGED <<decisions, links, nodes, edges, vstore, clock>>

NextRRF == RRFCall

SpecRRF == InitRRF /\ [][NextRRF]_vars

\* the sum over n copies of ranking of 1 / (k + rank + 1), for identifier id
FusedScore(ranking, n, k, id) ==
    LET RECURSIVE Sum(_)
        Sum(ranks) == IF ranks = {} THEN 0
                      ELSE LET r == CHOOSE r \in ranks : TRUE
                           IN Reciprocal(k, r - 1) + Sum(ranks \ {r})
    IN n * Sum({r \in 1..Len(ranking) : ranking[r] = id})

\* C18: reciprocal_rank_fusion of n copies of a ranking returns the
\* identifiers in the order it returns them for the ranking alone, each
\* identifier once, by descending sum of 1 / (k + rank + 1).
C18_FusionOfCopiesKeepsOrder ==
    out.op = "rrf"
        => /\ out.fused = out.once
           /\ SeqToSet(out.fused) = SeqToSet(out.ranking)
           /\ \A i, j \in 1..Len(out.fused) :
                i < j => /\ out.fused[i] # out.fused[j]
                         /\ FusedScore(out.ranking, out.copies, out.k, out.fused[i])
                              >= FusedScore(out.ranking, out.copies, out.k, out.fused[j])

\* three copies of a ranking in which the identifier listed second adds up
\* to more than the one listed first
C18_Witness ==
    /\ out.op = "rrf"
    /\ out.copies = 3
    /\ out.k = DefaultK
    /\ out.ranking = <<"m1", "m2", "m2">>
    /\ out.fused = <<"m2", "m1">>

\* the list retrieve returned is cut to top_k and ordered: by the reranker's
\* score when reranking ran, by the native score otherwise, and nothing left
\* out ranks above anything returned
CutAndOrdered ==
    LET items == out.result.items
        unique == UniqueResults(out.req, out.env, decisions)
        reranked == out.req.rerank /\ unique # <<>>
        rank(c) == IF reranked THEN c.rerank_score ELSE c.score
        left == {u \in 1..Len(unique) : unique[u].id \notin IdsOf(items)}
        leftRank(u) == IF reranked THEN out.env.rr.scores[u] ELSE unique[u].score
    IN /\ Len(items) <= out.req.top_k
       /\ \A i, j \in 1..Len(items) : i < j => rank(items[i]) >= rank(items[j])
       /\ \A u \in left : \A i \in 1..Len(items) : leftRank(u) <= rank(items[i])
       /\ IdsOf(items) \subseteq IdsOf(unique)

\* C19 (as claimed): for every top_k, retrieve returns at most top_k
\* candidates, in non-increasing order of the reranker's score when
\* reranking ran and of the native score otherwise, and every candidate left
\* out ranks no higher than every candidate returned.
C19_RetrieveCutsAndOrders == RetrieveReturned => CutAndOrdered

\* C19 (amended): the same for every top_k that is a count, top_k >= 0.
C19_CountTopKCutsAndOrders ==
    (RetrieveReturned /\ out.req.top_k >= 0) => CutAndOrdered

\* reranking cut two candidates to the one the reranker scored higher, which
\* the sources had listed second
C19_Witness ==
    /\ RetrieveReturned
    /\ out.req.rerank
    /\ out.req.top_k = 1
    /\ Len(UniqueResults(out.req, out.env, decisions)) = 2
    /\ out.env.rr.scores = <<0, 1>>
    /\ Len(out.result.items) = 1
    /\ out.result.items[1].id = UniqueResults(out.req, out.env, decisions)[2].id

\* C20: a failure of draft generation leaves the suggestion as it would be
\* had no draft been attempted (same action, tone, reasoning and precedent
\* list), and the result has no draft field.
C20_DraftFailureOnlyOmitsDraft ==
    (out.op = "get_suggestion" /\ out.use_llm /\ out.env.draftChat.err)
        => out.result = get_suggestion(out.message, out.use_llm,
                                       [out.env EXCEPT !.draftChat = ChatNotCalled],
                                       decisions, out.precedents)

(***************************************************************************)
(* The process-wide singletons.  Every accessor is                         *)
(*     global _x;  if _x is None: _x = X();  return _x                      *)
(* with no lock; the route handlers are plain functions, which the server  *)
(* runs on a pool of threads, so two requests can be inside an accessor at *)
(* once.  A request is at (pos, pc): the accessor it is in, by the order   *)
(* AgentEngine.__init__ calls them, and the statement it has reached.      *)
(***************************************************************************)
Singletons == <<"vector_store", "keyword_searcher", "reranker", "llm_client">>

InFlight == {"first", "second"}

\* _vector_store = None, and the like
NoInstance == 0

\* X(): the n-th instance built of a singleton is instance n
Construct(built) == built + 1

InitAccessors ==
    /\ decisions = <<>>
    /\ links = <<>>
    /\ nodes = {}
    /\ edges = <<>>
    /\ vstore = {}
    /\ clock = 0
    /\ out = [op |-> "accessors",
              cell |-> [s \in 1..Len(Singletons) |-> NoInstance],
              built |-> [s \in 1..Len(Singletons) |-> 0],
              at |-> [r \in InFlight |-> [pos |-> 1, pc |-> "test"]],
              got |-> [r \in InFlight |-> [s \in 1..Len(Singletons) |-> NoInstance]]]

\* if _x is None:
TestIsNone(r) ==
    /\ out.op = "accessors"
    /\ out.at[r].pos <= Len(Singletons)
    /\ out.at[r].pc = "test"
    /\ out' = [out EXCEPT !.at[r].pc =
                   IF out.cell[out.at[r].pos] = NoInstance THEN "build" ELSE "return"]
    /\ UNCHANGED <<decisions, links, nodes, edges, vstore, clock>>

\* _x = X()
BuildAndAssign(r) ==
    /\ out.op = "accessors"
    /\ out.at[r].pc = "build"
    /\ LET s == out.at[r].pos
       IN out' = [out EXCEPT !.built[s] = @ + 1,
                             !.cell[s] = Construct(out.built[s]),
                             !.at[r].pc = "return"]
    /\ UNCHANGED <<decisions, links, nodes, edges, vstore, clock>>

\* return _x
ReturnInstance(r) ==
    /\ out.op = "accessors"
    /\ out.at[r].pc = "return"
    /\ LET s == out.at[r].pos
       IN out' = [out EXCEPT !.got[r][s] = out.cell[s],
                             !.at[r] = [pos |-> s + 1, pc |-> "test"]]
    /\ UNCHANGED <<decisions, links, nodes, edges, vstore, clock>>

TestStep == \E r \in InFlight : TestIsNone(r)

BuildStep == \E r \in InFlight : BuildAndAssign(r)

ReturnStep == \E r \in InFlight : ReturnInstance(r)

NextAccessors == TestStep \/ BuildStep \/ ReturnStep

SpecAccessors == InitAccessors /\ [][NextAccessors]_vars

\* C21: each singleton is constructed at most once per process, also when
\* two requests call its accessor while it is uninitialized, and every
\* caller is handed the same instance.
C21_SingletonBuiltOnce ==
    out.op = "accessors" =>
        \A s \in 1..Len(Singletons) :
            /\ out.built[s] <= 1
            /\ \A r1, r2 \in InFlight :
                   (out.got[r1][s] # NoInstance /\ out.got[r2][s] # NoInstance)
                       => out.got[r1][s] = out.got[r2][s]

(***************************************************************************)
(* Two create_decision calls in flight.  Each handler works in the session *)
(* its request was given (db: Session = Depends(get_db)): what it adds is  *)
(* pending in that session and unseen by the other call until the commit,  *)
(* and the lookups of _update_graph see the committed rows only.  The      *)
(* commit inserts the pending rows in one transaction and raises when a    *)
(* primary key is taken.                                                   *)
(***************************************************************************)
Writers == {"w1", "w2"}

WriterBodies ==
    [message_id : {MsgId(1), MsgId(2)},
     agent_suggestion : {[action |-> "reply_later", tone |-> "neutral"]},
     human_action : RecordedChoices,
     context_used : [sender_type : {"investor"}, similar_decisions : {<<>>}],
     why : {"why"}]

InitWriters ==
    /\ decisions = <<>>
    /\ links = <<>>
    /\ nodes = {}
    /\ edges = <<>>
    /\ vstore = {}
    /\ clock = 0
    /\ out = [op |-> "writers",
              tx |-> [w \in Writers |-> [pc |-> "idle", status |-> 0, work |-> <<>>]]]

\* create_decision up to the commit: the rows the handler adds to its session
AddToSession(w, data, prefix) ==
    /\ out.op = "writers"
    /\ out.tx[w].pc = "idle"
    /\ LET message == MessageById(data.message_id)
           decision == Decision([k |-> "uuid", p |-> prefix, n |-> clock + 1],
                                data.message_id, data.agent_suggestion,
                                data.human_action, data.context_used, data.why,
                                clock + 1)
           decs == Append(decisions, decision)
       IN out' = [out EXCEPT !.tx[w] =
                    [pc |-> "pending", status |-> 0,
                     work |-> <<[decision |-> decision, message |-> message,
                                 nodes |-> NewNodes(nodes, decision, message),
                                 edges |-> NewEdges(nodes, decision, message, decs),
                                 links |-> NewLinks(decision)]>>]]
    /\ clock' = clock + 1
    /\ UNCHANGED <<decisions, links, nodes, edges, vstore>>

\* db.commit() and the rest of create_decision
CommitSession(w, vsFails) ==
    /\ out.op = "writers"
    /\ out.tx[w].pc = "pending"
    /\ LET t == out.tx[w].work[1]
       IN IF \E nd \in t.nodes : nd.id \in NodeIds(nodes)
          THEN /\ out' = [out EXCEPT !.tx[w].pc = "done", !.tx[w].status = 500]
               /\ UNCHANGED <<decisions, links, nodes, edges, vstore, clock>>
          ELSE /\ decisions' = Append(decisions, t.decision)
               /\ links' = links \o t.links
               /\ nodes' = nodes \cup t.nodes
               /\ edges' = edges \o t.edges
               /\ vstore' = IF vsFails THEN vstore
                            ELSE vstore \cup {VectorEntry(t.decision, t.message)}
               /\ out' = [out EXCEPT !.tx[w].pc = "done", !.tx[w].status = 200]
               /\ UNCHANGED clock

WriterAdds ==
    \E w \in Writers : \E data \in WriterBodies : \E prefix \in UuidPrefixes :
        AddToSession(w, data, prefix)

WriterCommits ==
    \E w \in Writers : \E vsFails \in BOOLEAN : CommitSession(w, vsFails)

NextWriters == WriterAdds \/ WriterCommits

SpecWriters == InitWriters /\ [][NextWriters]_vars

\* both calls have returned, and their decisions' uuids differ in the first
\* 8 characters
BothReturned ==
    /\ out.op = "writers"
    /\ \A w \in Writers : out.tx[w].pc = "done"
    /\ out.tx["w1"].work[1].decision.id.p # out.tx["w2"].work[1].decision.id.p

\* C22: records behave as if serialized: two concurrent create_decision
\* calls whose decisions share an action, tone, sender type or message with
\* no node yet both complete with their full node and edge sets, and the
\* shared value has exactly one node afterwards.
C22_ConcurrentRecordsSerialize ==
    BothReturned =>
        /\ \A w \in Writers :
              /\ out.tx[w].status = 200
              /\ DecisionNode(out.tx[w].work[1].decision) \in nodes
              /\ HasFullEdgeSet(out.tx[w].work[1].decision)
        /\ \A n1, n2 \in nodes : n1.id = n2.id => n1 = n2

(***************************************************************************)
(* The precedent-link relation.                                            *)
(***************************************************************************)
\* the stored decisions with the given id
StoredWithId(id) == {i \in 1..Len(decisions) : decisions[i].id = id}

\* the pairs <<decision, precedent>> of the links table
LinkPairs == {<<links[i].decision_id, links[i].precedent_id>> : i \in 1..Len(links)}

\* the pairs joined by a chain of at most n + 1 links
RECURSIVE Chains(_, _)
Chains(pairs, n) ==
    IF n = 0 THEN pairs
    ELSE Chains(pairs \cup {<<xy[1][1], xy[2][2]>> :
                                xy \in {xy \in pairs \X pairs : xy[1][2] = xy[2][1]}},
                n - 1)

\* C23: for every stored link from a decision d to a precedent p, p is a
\* stored decision recorded before d (its timestamp is earlier); so the link
\* relation has no cycle and no decision is its own precedent.
C23_PrecedentsPredate ==
    /\ \A i \in 1..Len(links) :
          /\ links[i].decision_id # links[i].precedent_id
          /\ \E d \in StoredWithId(links[i].decision_id) :
             \E p \in StoredWithId(links[i].precedent_id) :
                 decisions[p].timestamp < decisions[d].timestamp
    /\ \A pair \in Chains(LinkPairs, Len(links)) : pair[1] # pair[2]

\* a second decision has just been stored with a link to the first
C23_Witness ==
    /\ Len(links) >= 1
    /\ Len(decisions) = 2
    /\ links[1] = [decision_id |-> decisions[2].id, precedent_id |-> decisions[1].id]
    /\ out.op = "create"
    /\ out.status = 200

(***************************************************************************)
(* Ties in the vote.                                                       *)
(***************************************************************************)
FirstIndex(vals, v) == CHOOSE i \in 1..Len(vals) :
                          vals[i] = v /\ \A j \in 1..(i - 1) : vals[j] # v

\* v has the highest count in vals and, of the values with that count, is the
\* one met first
FirstSeenMax(vals, v) ==
    /\ IsMostFrequent(vals, v)
    /\ \A i \in 1..Len(vals) :
          Occurrences(vals, vals[i]) = Occurrences(vals, v)
              => FirstIndex(vals, v) <= i

\* two values share the highest count
HasTie(vals) ==
    \E i, j \in 1..Len(vals) :
        /\ vals[i] # vals[j]
        /\ Occurrences(vals, vals[i]) = Occurrences(vals, vals[j])
        /\ IsMostFrequent(vals, vals[i])

\* C24: when several actions (or tones) share the highest count, the vote
\* returns the one met first in the precedent list; the action and tone
\* depend on the ordered list only (not on the sender type).
C24_TieGoesToFirstSeen ==
    out.op = "vote" =>
        /\ FirstSeenMax(HumanActionsOf(out.precedents), out.result.action)
        /\ FirstSeenMax(HumanTonesOf(out.precedents), out.result.tone)
        /\ \A other \in {"investor", "sales"} :
              LET again == _precedent_voting(out.precedents, other)
              IN again.action = out.result.action /\ again.tone = out.result.tone

\* the actions (archive, ignore) tie one to one and the first, archive, wins;
\* the tones (formal, warm) tie and formal wins
C24_Witness ==
    /\ out.op = "vote"
    /\ HumanActionsOf(out.precedents) = <<"archive", "ignore">>
    /\ HumanTonesOf(out.precedents) = <<"formal", "warm">>
    /\ HasTie(HumanActionsOf(out.precedents))
    /\ out.result.action = "archive"
    /\ out.result.tone = "formal"

(***************************************************************************)
(* The order in which the heuristic tier reads the analysis.               *)
(***************************************************************************)
UrgencyIn(analysis, values) ==
    "urgency" \in DOMAIN analysis /\ analysis.urgency \in values

IntentIn(analysis, values) ==
    "intent" \in DOMAIN analysis /\ analysis.intent \in values

\* C25: urgency high or critical gives reply_now whatever the intent and the
\* sender type; otherwise intent urgent_request or question gives
\* (reply_now, warm); otherwise intent sales_pitch or newsletter gives
\* (ignore, neutral); the sender type matters only when none of these
\* applies.
C25_AnalysisBeforeSenderTable ==
    out.op = "heuristics" =>
        LET urgent == UrgencyIn(out.analysis, {<<"high">>, <<"critical">>})
            asks == IntentIn(out.analysis, {<<"urgent_request">>, <<"question">>})
            promo == IntentIn(out.analysis, {<<"sales_pitch">>, <<"newsletter">>})
        IN /\ urgent => out.result.action = "reply_now"
           /\ (~urgent /\ asks) => Gives(out.result, "reply_now", "warm")
           /\ (~urgent /\ promo) => Gives(out.result, "ignore", "neutral")
           /\ (urgent \/ asks \/ promo) =>
                 \A s \in SenderTypes :
                     LET other == _fallback_heuristics(
                                      [out.message EXCEPT !.sender_type = s],
                                      out.analysis)
                     IN Gives(out.result, other.action, other.tone)

\* a newsletter of high urgency from a sales sender is answered reply_now:
\* the urgency is read before the intent and the sender type
C25_Witness ==
    /\ out.op = "heuristics"
    /\ out.analysis = AnalysisWith(<<"newsletter">>, <<"high">>)
    /\ out.message.sender_type = "sales"
    /\ Gives(out.result, "reply_now", "neutral")

(***************************************************************************)
(* KeywordSearcher (keyword_search.py).  A searcher is the record of its   *)
(* four attributes; bm25 is [built, docs]: whether a BM25Okapi exists and  *)
(* the tokenized corpus it was built on.  A text is a sequence of tokens;  *)
(* the score of a document stands for its BM25 score and is positive       *)
(* exactly when the document holds a token of the query.                   *)
(***************************************************************************)
\* KeywordSearcher.__init__
KeywordSearcher ==
    [bm25 |-> [built |-> FALSE, docs |-> <<>>],
     corpus |-> <<>>, metadata |-> <<>>, tokenized_corpus |-> <<>>]

\* what _tokenize throws away: blanks, punctuation and one-character words
ShortTokens == {" ", "!", "a", "I"}

\* KeywordSearcher._tokenize
RECURSIVE _tokenize(_)
_tokenize(text) ==
    IF text = <<>> THEN <<>>
    ELSE IF Head(text) \in ShortTokens THEN _tokenize(Tail(text))
    ELSE <<LowerToken(Head(text))>> \o _tokenize(Tail(text))

\* subject + " " + content, the subject being optional
IndexedText(msg) ==
    IF msg.subject # <<>> THEN msg.subject \o <<" ">> \o msg.content
    ELSE msg.content

IndexedMeta(msg) == [id |-> msg.id, sender_type |-> msg.sender_type]

\* KeywordSearcher.index_messages: the three lists start over; the BM25 index
\* is rebuilt only when the new tokenized corpus is not empty
index_messages(self, messages) ==
    LET tokenized == [i \in 1..Len(messages) |-> _tokenize(IndexedText(messages[i]))]
    IN [bm25 |-> IF tokenized # <<>>
                 THEN [built |-> TRUE, docs |-> tokenized]
                 ELSE self.bm25,
        corpus |-> [i \in 1..Len(messages) |-> IndexedText(messages[i])],
        metadata |-> [i \in 1..Len(messages) |-> IndexedMeta(messages[i])],
        tokenized_corpus |-> tokenized]

\* bm25.get_scores for one document
Bm25Score(doc, tokenized_query) ==
    Cardinality({ij \in (1..Len(doc)) \X (1..Len(tokenized_query)) :
                    doc[ij[1]] = tokenized_query[ij[2]]})

\* the loop of search over the documents i..n whose scores are given
RECURSIVE SearchRows(_, _, _, _)
SearchRows(self, scores, i, filter_sender_type) ==
    IF i > Len(scores) THEN <<>>
    ELSE IF scores[i] > 0
            /\ (filter_sender_type = ""
                \/ self.metadata[i].sender_type = filter_sender_type)
         THEN <<[id |-> self.metadata[i].id, bm25 |-> scores[i],
                 sender_type |-> self.metadata[i].sender_type]>>
              \o SearchRows(self, scores, i + 1, filter_sender_type)
         ELSE SearchRows(self, scores, i + 1, filter_sender_type)

\* KeywordSearcher.search: [] without an index; self.metadata[i] raises
\* IndexError for a scored document the metadata list does not reach
search(self, query, top_k, filter_sender_type) ==
    IF ~self.bm25.built THEN Returned(<<>>)
    ELSE LET scores == [i \in 1..Len(self.bm25.docs) |->
                           Bm25Score(self.bm25.docs[i], _tokenize(query))]
         IN IF \E i \in 1..Len(scores) : scores[i] > 0 /\ i > Len(self.metadata)
            THEN Raised
            ELSE Returned(Slice(SortDesc(SearchRows(self, scores, 1,
                                                    filter_sender_type),
                                         "bm25"),
                                top_k))

\* the messages offered for indexing
IndexDocs ==
    { [id |-> MsgId(1), subject |-> <<"Webinar">>,
       content |-> <<"funding", " ", "round">>, sender_type |-> "investor"],
      [id |-> MsgId(2), subject |-> <<>>,
       content |-> <<"weekly", " ", "Newsletter">>, sender_type |-> "sales"],
      [id |-> MsgId(3), subject |-> <<"a">>,
       content |-> <<"funding", " ", "newsletter", "!">>, sender_type |-> "support"] }

DocLists ==
    {d \in SeqsUpTo(IndexDocs, MaxSrcLen) :
        \A i, j \in 1..Len(d) : i # j => d[i] # d[j]}

Queries ==
    { <<"funding">>, <<"Newsletter", " ", "a">>, <<"webinar">>, <<"budget">> }

InitIndex ==
    /\ decisions = <<>>
    /\ links = <<>>
    /\ nodes = {}
    /\ edges = <<>>
    /\ vstore = {}
    /\ clock = 0
    /\ out = [op |-> "new", searcher |-> KeywordSearcher, indexed |-> <<>>,
              query |-> <<>>, top_k |-> 0, filter_sender_type |-> "",
              result |-> NotCalled]

IndexCall ==
    /\ out.op \in {"new", "index", "search"}
    /\ \E messages \in DocLists :
          out' = [op |-> "index",
                  searcher |-> index_messages(out.searcher, messages),
                  indexed |-> messages, query |-> <<>>, top_k |-> 0,
                  filter_sender_type |-> "", result |-> NotCalled]
    /\ UNCHANGED <<decisions, links, nodes, edges, vstore, clock>>

SearchCall ==
    /\ out.op \in {"index", "search"}
    /\ \E query \in Queries :
       \E top_k \in 1..MaxTopK :
       \E filter_sender_type \in {"", "investor"} :
          out' = [out EXCEPT !.op = "search", !.query = query,
                             !.top_k = top_k,
                             !.filter_sender_type = filter_sender_type,
                             !.result = search(out.searcher, query, top_k,
                                               filter_sender_type)]
    /\ UNCHANGED <<decisions, links, nodes, edges, vstore, clock>>

NextIndex == IndexCall \/ SearchCall

SpecIndex == InitIndex /\ [][NextIndex]_vars

\* the searcher describes exactly the documents of d
Describes(searcher, d) ==
    /\ Len(searcher.corpus) = Len(d)
    /\ Len(searcher.metadata) = Len(d)
    /\ Len(searcher.tokenized_corpus) = Len(d)
    /\ \A i \in 1..Len(d) : searcher.metadata[i].id = d[i].id
    /\ IF d = <<>> THEN ~searcher.bm25.built
       ELSE searcher.bm25.built /\ Len(searcher.bm25.docs) = Len(d)

\* C26: index_messages(D) replaces the corpus wholesale: whatever was indexed
\* before and for every D, the empty list included, a later search raises
\* nothing and returns identifiers of documents of D only, and the corpus,
\* metadata and tokenized-corpus lists and the BM25 index describe exactly
\* the documents of D.
C26_IndexReplacesCorpus ==
    out.op \in {"index", "search"} =>
        /\ Describes(out.searcher, out.indexed)
        /\ ~out.result.err
        /\ \A i \in 1..Len(out.result.items) :
              \E j \in 1..Len(out.indexed) :
                  out.result.items[i].id = out.indexed[j].id

(***************************************************************************)
(* Reset.                                                                  *)
(***************************************************************************)
\* C27: reset removes every recorded decision from all the stores retrieval
\* consults and keeps the messages: after it the decision, link, node and
\* edge collections are empty and the vector store holds no decision entry,
\* and while no decision is stored a suggestion has no candidate that comes
\* from a decision.
C27_ResetForgetsDecisions ==
    /\ out.op = "reset" =>
          /\ decisions = <<>>
          /\ links = <<>>
          /\ nodes = {}
          /\ edges = <<>>
          /\ vstore = {}
    /\ (out.op = "suggest" /\ out.status = 200 /\ decisions = <<>>) =>
          out.result.context_sources = <<>>

(***************************************************************************)
(* Recorded decisions in later suggestions: get_suggestion over a store of *)
(* decisions, with a vector store that answers with message chunks and a   *)
(* cross-encoder that prefers one source to the other.                     *)
(***************************************************************************)
\* the first n message chunks of the vector store, nearest first
ChunkRows(n) ==
    [i \in 1..n |-> [id |-> [k |-> "chunk", p |-> "", n |-> i],
                     dist |-> 10 + i, did |-> NoDecisionId]]

\* how many chunks the vector store holds for the query
ChunkCounts == 0..(AgentTopK + 1)

\* the cross-encoder's scores for nvec vector candidates followed by ngraph
\* graph candidates, when it prefers the given source
PreferenceScores(prefers, nvec, ngraph) ==
    [i \in 1..(nvec + ngraph) |->
        IF (i <= nvec) = (prefers = "vector") THEN 1 ELSE 0]

FeedWorlds(message, use_llm, decs) ==
    { [analysisChat |-> c.analysisChat, suggestChat |-> c.suggestChat,
       draftChat |-> c.draftChat, vraw |-> v, kraw |-> Returned(<<>>),
       dbFails |-> FALSE,
       rr |-> [err |-> FALSE,
               scores |-> PreferenceScores(
                              prefers, Len(v.items),
                              Len(DecisionsOfType(decs, message.sender_type)))]] :
        c \in UsualChatWorlds(use_llm),
        v \in {Raised} \cup {Returned(ChunkRows(n)) : n \in ChunkCounts},
        prefers \in {"vector", "graph"} }

InitFeed ==
    /\ decisions \in SampleStores
    /\ InitStore

FeedCall ==
    /\ out.op = "none"
    /\ \E message \in Messages :
       \E use_llm \in BOOLEAN :
       \E env \in FeedWorlds(message, use_llm, decisions) :
       \E similar \in _get_similar_decisions(
                          _retrieve_context(message, env, decisions), decisions) :
           out' = [op |-> "get_suggestion", message |-> message,
                   use_llm |-> use_llm, env |-> env, precedents |-> similar,
                   result |-> get_suggestion(message, use_llm, env, decisions,
                                             similar)]
    /\ UNCHANGED <<decisions, links, nodes, edges, vstore, clock>>

NextFeed == FeedCall

SpecFeed == InitFeed /\ [][NextFeed]_vars

\* the store holds a decision on a message of the request's sender type
StoreKnowsSenderType ==
    \E i \in 1..Len(decisions) :
        MessageById(decisions[i].message_id).sender_type = out.message.sender_type

\* the suggestion rests on at least one precedent
RestsOnPrecedent ==
    /\ out.result.precedent_count >= 1
    /\ out.result.tier # "heuristic"

\* the context the request retrieved holds a graph candidate
GraphCandidateKept ==
    LET ctx == _retrieve_context(out.message, out.env, decisions)
    IN \E i \in 1..Len(ctx) : ctx[i].source = "graph"

\* C28 (as claimed): when the store holds a decision on a message of sender
\* type S, every get_suggestion for a message of type S resolves at least
\* one precedent and does not fall to the heuristic tier, whatever the other
\* sources return and however the candidates are reranked and cut.
C28_StoredDecisionAlwaysFeeds ==
    (out.op = "get_suggestion" /\ StoreKnowsSenderType) => RestsOnPrecedent

\* C28 (amended): the same, for the requests whose retrieved context (the
\* reranked first ten) still holds a graph candidate.
C28_KeptGraphCandidateFeeds ==
    (out.op = "get_suggestion" /\ StoreKnowsSenderType /\ GraphCandidateKept)
        => RestsOnPrecedent

\* ten chunks and one decision of the sender type compete for the ten places;
\* the cross-encoder prefers the graph candidate, which stays and is voted on
C28_Witness ==
    /\ out.op = "get_suggestion"
    /\ StoreKnowsSenderType
    /\ ~out.use_llm
    /\ ~out.env.vraw.err
    /\ Len(out.env.vraw.items) = AgentTopK
    /\ GraphCandidateKept
    /\ out.result.precedent_count = 1
    /\ out.result.tier = "voting"

(***************************************************************************)
(* Referential closure of the graph projection.                            *)
(***************************************************************************)
\* the based_on_precedent edges that leave the node of decision d, in order
PrecedentEdgesOf(d) ==
    LET leaves(e) == /\ e.edge_type = "based_on_precedent"
                     /\ e.source_id = NodeId("dec_", d.id.p)
    IN SelectSeq(edges, leaves)

\* the listed precedents of d that are stored, in order
StoredPrecedentsOf(d) ==
    LET stored(id) == StoredWithId(id) # {}
    IN SelectSeq(d.context_used.similar_decisions, stored)

\* C29: the graph is referentially closed: the source and the target of
\* every edge are identifiers of nodes that exist, and the target of each
\* based_on_precedent edge is the decision node of the very precedent the
\* edge was made for.
C29_GraphIsClosed ==
    /\ \A i \in 1..Len(edges) :
          /\ edges[i].source_id \in NodeIds(nodes)
          /\ edges[i].target_id \in NodeIds(nodes)
    /\ \A i \in 1..Len(decisions) :
          LET made == PrecedentEdgesOf(decisions[i])
              listed == StoredPrecedentsOf(decisions[i])
          IN /\ Len(made) = Len(listed)
             /\ \A k \in 1..Len(made) :
                   \A nd \in nodes :
                       nd.id = made[k].target_id
                           => nd.node_type = "decision" /\ nd.ref = listed[k]

\* a decision is stored whose based_on_precedent edge ends at the node of the
\* first decision
C29_Witness ==
    /\ Len(decisions) = 2
    /\ decisions[2].context_used.similar_decisions = <<decisions[1].id>>
    /\ Len(PrecedentEdgesOf(decisions[2])) = 1
    /\ PrecedentEdgesOf(decisions[2])[1].target_id = NodeId("dec_", decisions[1].id.p)
    /\ DecisionNode(decisions[1]) \in nodes

(***************************************************************************)
(* Node identifiers made of the first 8 characters.                        *)
(***************************************************************************)
\* C30: distinct decisions get distinct decision-node identifiers and
\* distinct messages distinct message-node identifiers, so that recording a
\* decision never fails on the node of another decision or message, and
\* never overwrites or reuses it.
C30_NodeIdsNeverCollide ==
    /\ (out.op = "create" /\ out.status = 500) => ~out.collides
    /\ \A i, j \in 1..Len(decisions) :
          i # j => DecisionNode(decisions[i]).id # DecisionNode(decisions[j]).id
    /\ \A n1, n2 \in nodes : n1.id = n2.id => n1 = n2

====
